---------------------------- MODULE Spec2Model ----------------------------
(***************************************************************************)
(* Model of the Uzei browser extension's copyright / open-access admission *)
(* control (src/content.js, "Copyright Checker Module") and of the popup's *)
(* submission gate (src/popup.js).                                          *)
(*                                                                         *)
(* Strings are sequences of one-character strings, so that substring       *)
(* tests, case folding, prefix stripping and the URL patterns are computed *)
(* the way the code computes them.  A missing (null / undefined) string is *)
(* the empty sequence: every use in the code tests such values only for    *)
(* truthiness, and '' is falsy as well.                                    *)
(*                                                                         *)
(* Time is counted in seconds (the code counts milliseconds).              *)
(***************************************************************************)
EXTENDS Integers, Sequences, FiniteSets, TLC

\* ------------------------------------------------------------------ bounds

\* Number of checkCopyright invocations started in one behaviour.
MaxCalls == 2

\* ----------------------------------------------------------------- strings

Absent == <<>>

UpperChars == <<"A","B","C","D","E","F","G","H","I","J","K","L","M",
                "N","O","P","Q","R","S","T","U","V","W","X","Y","Z">>

LowerChars == <<"a","b","c","d","e","f","g","h","i","j","k","l","m",
                "n","o","p","q","r","s","t","u","v","w","x","y","z">>

Digits == {"0","1","2","3","4","5","6","7","8","9"}

Whitespace == {" "}

\* String.prototype.toLowerCase, one character.
LowerChar(c) ==
  IF \E i \in 1..Len(UpperChars) : UpperChars[i] = c
  THEN LowerChars[CHOOSE i \in 1..Len(UpperChars) : UpperChars[i] = c]
  ELSE c

\* String.prototype.toLowerCase.
toLowerCase(s) == [i \in 1..Len(s) |-> LowerChar(s[i])]

\* s.substring(i-1, i-1+Len(t)) === t, with i counted from 1.
MatchAt(s, t, i) ==
  /\ i >= 1
  /\ i + Len(t) - 1 <= Len(s)
  /\ SubSeq(s, i, i + Len(t) - 1) = t

\* String.prototype.includes.
includes(s, t) == \E i \in 1..(Len(s) - Len(t) + 1) : MatchAt(s, t, i)

\* String.prototype.startsWith.
startsWith(s, t) == MatchAt(s, t, 1)

\* Length of the longest run of characters of class cls that starts at i.
RunLen(s, i, cls) ==
  CHOOSE k \in 0..(Len(s) - i + 1) :
    /\ \A j \in i..(i + k - 1) : s[j] \in cls
    /\ (i + k > Len(s) \/ s[i + k] \notin cls)

\* The characters that occur in s.
CharsOf(s) == {s[j] : j \in 1..Len(s)}

\* The least element of a non-empty set of integers.
Min(S) == CHOOSE x \in S : \A y \in S : x <= y

\* String.prototype.trim.
trim(s) ==
  LET lead  == RunLen(s, 1, Whitespace)
      rest  == SubSeq(s, lead + 1, Len(s))
      keep  == IF rest = <<>> THEN 0
               ELSE CHOOSE k \in 1..Len(rest) :
                      /\ rest[k] \notin Whitespace
                      /\ \A j \in (k + 1)..Len(rest) : rest[j] \in Whitespace
  IN  SubSeq(rest, 1, keep)


\* ------------------------------------------------------- program constants

\* COPYRIGHT_CONFIG.CACHE_DURATION, 30 days, in seconds.
CACHE_DURATION == 30 * 24 * 60 * 60

\* The namespace tag of the cache keys in chrome.storage.local.
CACHE_PREFIX == <<"o","a","_","c","a","c","h","e","_">>

\* ------------------------------------------------------------ URL handling

HttpScheme == <<"h","t","t","p",":","/","/">>

HttpsScheme == <<"h","t","t","p","s",":","/","/">>

\* Where the host of an http(s) URL starts, 0 when the string is no such URL.
HostStart(url) ==
  IF startsWith(url, HttpsScheme) THEN Len(HttpsScheme) + 1
  ELSE IF startsWith(url, HttpScheme) THEN Len(HttpScheme) + 1
  ELSE 0

HostChars == Digits \cup {LowerChars[i] : i \in 1..Len(LowerChars)}
                    \cup {UpperChars[i] : i \in 1..Len(UpperChars)} \cup {".", "-"}

\* new URL(url) succeeds (it throws TypeError on anything but an absolute URL).
IsValidURL(url) ==
  /\ HostStart(url) > 0
  /\ RunLen(url, HostStart(url), HostChars) > 0

\* new URL(url).hostname: the host, lower-cased by the URL parser.
hostname(url) ==
  LET b == HostStart(url)
  IN  toLowerCase(SubSeq(url, b, b + RunLen(url, b, HostChars) - 1))

\* new URL(url).searchParams.get(name) for a query without percent escapes:
\* the value of the first name=value pair after '?', Absent when there is none.
searchParamsGet(url, name) ==
  LET qs     == {q \in 1..Len(url) : url[q] = "?"}
      starts == IF qs = {} THEN {}
                ELSE {p \in (Min(qs) + 1)..Len(url) :
                        /\ (p = Min(qs) + 1 \/ url[p - 1] = "&")
                        /\ MatchAt(url, name \o <<"=">>, p)
                        /\ \A j \in Min(qs)..p : url[j] # "#"}
  IN  IF starts = {} THEN Absent
      ELSE LET v == Min(starts) + Len(name) + 1
           IN  SubSeq(url, v, v + RunLen(url, v, CharsOf(url) \ {"&", "#"}) - 1)

\* ------------------------------------------------------------ DOI handling

NonSpace(s, i, j) == \A k \in i..j : s[k] \notin Whitespace

\* The positions e at which /\/([10]\.\d{4,}\/[^\s]+?)\.pdf/i, started at the
\* slash at position i, can end its group.
DoiInPathEnds(url, i) ==
  IF ~(/\ i + 3 <= Len(url)
       /\ url[i] = "/"
       /\ url[i + 1] \in {"1", "0"}
       /\ url[i + 2] = ".")
  THEN {}
  ELSE LET k == RunLen(url, i + 3, Digits)
           b == i + 4 + k
       IN  IF k < 4 \/ i + 3 + k > Len(url) \/ url[i + 3 + k] # "/"
           THEN {}
           ELSE {e \in b..Len(url) :
                   /\ NonSpace(url, b, e)
                   /\ e + 4 <= Len(url)
                   /\ toLowerCase(SubSeq(url, e + 1, e + 4)) = <<".","p","d","f">>}

\* Pattern 1: url.match(/\/([10]\.\d{4,}\/[^\s]+?)\.pdf/i), group 1.
DoiInPath(url) ==
  LET S == {i \in 1..Len(url) : DoiInPathEnds(url, i) # {}}
  IN  IF S = {} THEN Absent
      ELSE SubSeq(url, Min(S) + 1, Min(DoiInPathEnds(url, Min(S))))

\* The end of /(10\.\d{4,}\/[^\s\/]+)/ started at position i, 0 when it fails.
SpringerEnd(url, i) ==
  IF ~(/\ i + 2 <= Len(url)
       /\ url[i] = "1"
       /\ url[i + 1] = "0"
       /\ url[i + 2] = ".")
  THEN 0
  ELSE LET k == RunLen(url, i + 3, Digits)
           b == i + 4 + k
           m == IF b <= Len(url) + 1
                THEN RunLen(url, b, CharsOf(url) \ (Whitespace \cup {"/"}))
                ELSE 0
       IN  IF k < 4 \/ i + 3 + k > Len(url) \/ url[i + 3 + k] # "/" \/ m < 1
           THEN 0
           ELSE b + m - 1

\* Pattern 2: url.match(/(10\.\d{4,}\/[^\s\/]+)/), group 1.
SpringerMatch(url) ==
  LET S == {i \in 1..Len(url) : SpringerEnd(url, i) > 0}
  IN  IF S = {} THEN Absent
      ELSE SubSeq(url, Min(S), SpringerEnd(url, Min(S)))

ArxivPdfPath == <<"a","r","x","i","v",".","o","r","g","/","p","d","f","/">>

ArxivDoiPrefix == <<"1","0",".","4","8","5","5","0","/","a","r","X","i","v",".">>

\* The end of /arxiv\.org\/pdf\/(\d+\.\d+)/i started at position i, 0 when it fails.
ArxivEnd(url, i) ==
  IF ~(/\ i + Len(ArxivPdfPath) - 1 <= Len(url)
       /\ toLowerCase(SubSeq(url, i, i + Len(ArxivPdfPath) - 1)) = ArxivPdfPath)
  THEN 0
  ELSE LET b  == i + Len(ArxivPdfPath)
           k1 == RunLen(url, b, Digits)
           k2 == IF b + k1 + 1 <= Len(url) + 1 THEN RunLen(url, b + k1 + 1, Digits) ELSE 0
       IN  IF k1 < 1 \/ b + k1 > Len(url) \/ url[b + k1] # "." \/ k2 < 1
           THEN 0
           ELSE b + k1 + k2

\* Pattern 3: url.match(/arxiv\.org\/pdf\/(\d+\.\d+)/i), group 1.
ArxivMatch(url) ==
  LET S == {i \in 1..Len(url) : ArxivEnd(url, i) > 0}
  IN  IF S = {} THEN Absent
      ELSE SubSeq(url, Min(S) + Len(ArxivPdfPath), ArxivEnd(url, Min(S)))

\* An extraction that looks at the doi query parameter first.
extractDOIFromPDFUrlQueryFirst(url) ==
  IF url = Absent THEN Absent
  ELSE IF IsValidURL(url) /\ searchParamsGet(url, <<"d","o","i">>) # Absent
  THEN searchParamsGet(url, <<"d","o","i">>)
  ELSE IF DoiInPath(url) # Absent THEN DoiInPath(url)
  ELSE IF SpringerMatch(url) # Absent THEN SpringerMatch(url)
  ELSE IF ArxivMatch(url) # Absent THEN ArxivDoiPrefix \o ArxivMatch(url)
  ELSE Absent

\* An extraction that returns the arXiv identifier as it stands in the URL.
extractDOIFromPDFUrlBareId(url) ==
  IF url = Absent THEN Absent
  ELSE IF DoiInPath(url) # Absent THEN DoiInPath(url)
  ELSE IF SpringerMatch(url) # Absent THEN SpringerMatch(url)
  ELSE IF ArxivMatch(url) # Absent THEN ArxivMatch(url)
  ELSE IF ~IsValidURL(url) THEN Absent
  ELSE searchParamsGet(url, <<"d","o","i">>)

\* extractDOIFromPDFUrl(url): the first pattern that matches decides.
extractDOIFromPDFUrl(url) ==
  IF url = Absent THEN Absent
  ELSE IF DoiInPath(url) # Absent THEN DoiInPath(url)
  ELSE IF SpringerMatch(url) # Absent THEN SpringerMatch(url)
  ELSE IF ArxivMatch(url) # Absent THEN ArxivDoiPrefix \o ArxivMatch(url)
  ELSE IF ~IsValidURL(url) THEN Absent
  ELSE searchParamsGet(url, <<"d","o","i">>)

\* doi.replace(/^doi:\s*/i, '').trim()
cleanDOI(doi) ==
  IF Len(doi) >= 4 /\ toLowerCase(SubSeq(doi, 1, 4)) = <<"d","o","i",":">>
  THEN trim(SubSeq(doi, 5 + RunLen(doi, 5, Whitespace), Len(doi)))
  ELSE trim(doi)

\* `oa_cache_${doi}`
cacheKey(doi) == CACHE_PREFIX \o doi


\* ------------------------------------------------------------ the universe

\* The null / undefined object.
NoRecord == [none |-> TRUE]

\* Domain strings of the dataset and of the pages.
OaEntry == <<"O","A",".","o","r","g">>

PayEntry == <<"p","a","y",".","c","o","m">>

ClosedEntry == <<"c","l","o","s","e","d",".","o","r","g">>

MixedEntry == <<"m","i","x",".","o","r","g">>

DomOa == <<"o","a",".","o","r","g">>

DomPay == <<"p","a","y",".","c","o","m">>

\* A library proxy host: it contains a whitelisted and a blacklisted name.
DomProxy == <<"o","a",".","o","r","g",".","p","a","y",".","c","o","m">>

DomOther == <<"x",".","n","e","t">>

Domains == {Absent, DomOa, DomPay, DomProxy, DomOther}

\* https://pay.com/a : a page without any DOI in its address.
UrlPage == HttpsScheme \o DomPay \o <<"/","a">>

\* http://x.net/10.1234/ab.pdf : a PDF with a DOI in its path.
UrlDoiPdf == HttpScheme \o DomOther \o <<"/","1","0",".","1","2","3","4","/","a","b",".","p","d","f">>

\* x.net/a : not an absolute URL.
UrlRelative == DomOther \o <<"/","a">>

\* https://oa.org/ab : the open-access location the registry may name.
UrlOa == HttpsScheme \o DomOa \o <<"/","a","b">>

Urls == {Absent, UrlPage, UrlDoiPdf, UrlRelative, UrlOa}

Doi1 == <<"1","0",".","1","2","3","4","/","a","b">>

\* The same DOI as page metadata may carry it, with the "doi:" label.
Doi1Labelled == <<"d","o","i",":">> \o Doi1

Dois == {Absent, Doi1, Doi1Labelled}

\* The values of (pageData.isPDF, pageData.contentType).
PdfFlags == {<<FALSE, "web">>, <<TRUE, "pdf">>, <<FALSE, "pdf">>}

\* The pageData objects handed to checkCopyright.
PageInputs ==
  {[url |-> u, domain |-> d, doi |-> x, isPDF |-> f[1], contentType |-> f[2]] :
     u \in Urls, d \in Domains, x \in Dois, f \in PdfFlags}
  \cup {NoRecord}

\* ------------------------------------------------------ the domain dataset

JsonArray(items) == [type |-> "array", items |-> items, values |-> <<>>]

JsonObject(values) == [type |-> "object", items |-> <<>>, values |-> values]

\* academic_dblist.json; has_blacklist and has_conditional tell whether the
\* document has these sections.
GoodDataset ==
  [has_blacklist |-> TRUE, has_conditional |-> TRUE,
   allowlist   |-> [preprint_servers           |-> <<OaEntry>>,
                    open_access_publishers     |-> <<>>,
                    open_access_repositories   |-> <<>>,
                    institutional_repositories |-> <<>>],
   blacklist   |-> <<JsonArray(<<PayEntry>>),
                     JsonObject(<<JsonArray(<<ClosedEntry>>)>>)>>,
   conditional |-> [mixed_content |-> <<MixedEntry>>]]

\* A dataset document without its blacklist section.
NoBlacklistDataset ==
  [GoodDataset EXCEPT !.has_blacklist = FALSE, !.blacklist = <<>>,
                      !.has_conditional = FALSE]

\* A dataset document whose blacklist groups a domain list under a category
\* and a subcategory: { publishers: [...], databases: { science: { closed: [...] } } }.
DeepDataset ==
  [GoodDataset EXCEPT
     !.blacklist = <<JsonArray(<<PayEntry>>),
                     JsonObject(<<JsonObject(<<JsonArray(<<ClosedEntry>>)>>)>>)>>]

\* The documents the extension may be packaged with.
Datasets == {GoodDataset, NoBlacklistDataset, DeepDataset}

\* What fetch(academic_dblist.json) followed by response.json() yields when
\* the packaged file is `document`: the document, or an error.
DatasetFetches(document) ==
  {[kind |-> "ok", data |-> document],
   [kind |-> "error", data |-> document]}

EmptyDatabases == [whitelist |-> <<>>, blacklist |-> <<>>, conditional |-> <<>>]

RECURSIVE Concat(_)
\* [...a, ...b, ...] for a sequence of arrays.
Concat(arrays) ==
  IF arrays = <<>> THEN <<>> ELSE Head(arrays) \o Concat(Tail(arrays))

\* The blacklist flattening loop: arrays at depth one and two are taken.
FlattenBlacklist(categories) ==
  Concat([c \in 1..Len(categories) |->
            IF categories[c].type = "array" THEN categories[c].items
            ELSE Concat([k \in 1..Len(categories[c].values) |->
                           IF categories[c].values[k].type = "array"
                           THEN categories[c].values[k].items
                           ELSE <<>>])])

\* A load that pushes the blacklist entries onto the list it finds.
loadAcademicDatabasesAppending(db, fetched) ==
  IF fetched.kind # "ok" \/ ~fetched.data.has_blacklist
  THEN [db |-> db, ok |-> FALSE]
  ELSE LET a  == fetched.data.allowlist
           wl == a.preprint_servers \o a.open_access_publishers
                   \o a.open_access_repositories \o a.institutional_repositories
       IN  [db |-> [whitelist   |-> wl,
                    blacklist   |-> db.blacklist \o FlattenBlacklist(fetched.data.blacklist),
                    conditional |-> IF ~fetched.data.has_conditional
                                    THEN <<>>
                                    ELSE fetched.data.conditional.mixed_content],
            ok |-> TRUE]

\* loadAcademicDatabases: the databases it leaves and the value it returns.
loadAcademicDatabases(db, fetched) ==
  IF fetched.kind # "ok"
  THEN [db |-> db, ok |-> FALSE]
  ELSE LET a   == fetched.data.allowlist
           wl  == a.preprint_servers \o a.open_access_publishers
                    \o a.open_access_repositories \o a.institutional_repositories
           db1 == [db EXCEPT !.whitelist = wl, !.blacklist = <<>>]
       IN  IF ~fetched.data.has_blacklist
           THEN [db |-> db1, ok |-> FALSE]
           ELSE [db |-> [whitelist   |-> wl,
                         blacklist   |-> FlattenBlacklist(fetched.data.blacklist),
                         conditional |-> IF ~fetched.data.has_conditional
                                         THEN <<>>
                                         ELSE fetched.data.conditional.mixed_content],
                 ok |-> TRUE]

\* list.some(entry => domain.toLowerCase().includes(entry.toLowerCase()))
MatchesList(list, domain) ==
  /\ domain # Absent
  /\ \E k \in 1..Len(list) : includes(toLowerCase(domain), toLowerCase(list[k]))

isWhitelisted(db, domain) == MatchesList(db.whitelist, domain)

isBlacklisted(db, domain) == MatchesList(db.blacklist, domain)

isConditional(db, domain) == MatchesList(db.conditional, domain)


\* ------------------------------------------------- the open-access registry

\* An OA status record; "" and Absent stand for a field that is not set.
OARecord(doi, isOa, status, oaUrl, hostType, version, license, error) ==
  [doi |-> doi, is_oa |-> isOa, oa_status |-> status, oa_url |-> oaUrl,
   host_type |-> hostType, version |-> version, license |-> license,
   error |-> error]

\* { is_oa: false, error: message }
ErrorRecord(message) == OARecord(Absent, FALSE, "", Absent, "", "", "", message)

\* { is_oa: false, oa_status: 'not_found', doi: cleanDOI }
NotFoundRecord(doi) == OARecord(doi, FALSE, "not_found", Absent, "", "", "", "")

\* The best_oa_location objects of the registry's answers.
Locations ==
  {NoRecord,
   [url |-> UrlOa, host_type |-> "repository", version |-> "acceptedVersion",
    license |-> "cc-by"],
   [url |-> UrlPage, host_type |-> "publisher", version |-> "publishedVersion",
    license |-> ""]}

\* The JSON bodies of the registry's 200 answers for a DOI; is_oa may be missing.
RegistryBodies(doi) ==
  {[doi |-> doi, has_is_oa |-> TRUE, is_oa |-> TRUE, oa_status |-> "gold",
    best_oa_location |-> l] : l \in Locations}
  \cup {[doi |-> doi, has_is_oa |-> TRUE, is_oa |-> FALSE, oa_status |-> "closed",
         best_oa_location |-> NoRecord],
        [doi |-> doi, has_is_oa |-> FALSE, is_oa |-> FALSE, oa_status |-> "",
         best_oa_location |-> NoRecord]}

\* What awaiting fetch(url, {signal}) and response.json() can yield.
RegistryAnswers(doi) ==
  {[kind |-> "response", status |-> 200, body |-> b] : b \in RegistryBodies(doi)}
  \cup {[kind |-> "response", status |-> 404, body |-> NoRecord],
        [kind |-> "response", status |-> 500, body |-> NoRecord],
        [kind |-> "bad_json", status |-> 200, body |-> NoRecord],
        [kind |-> "timeout", status |-> 0, body |-> NoRecord],
        [kind |-> "network", status |-> 0, body |-> NoRecord]}

\* The oaData object queryUnpaywall builds from a 200 answer.
oaDataOf(data) ==
  LET loc == data.best_oa_location
  IN  OARecord(data.doi,
               data.has_is_oa /\ data.is_oa,
               data.oa_status,
               IF loc = NoRecord THEN Absent ELSE loc.url,
               IF loc = NoRecord THEN "" ELSE loc.host_type,
               IF loc = NoRecord THEN "" ELSE loc.version,
               IF loc = NoRecord THEN "" ELSE loc.license,
               "")

\* queryUnpaywall handing every record, error records too, to cacheOAStatus.
queryUnpaywallResultAllCached(doi, answer) ==
  IF answer.kind = "response" /\ answer.status = 404
  THEN [record |-> NotFoundRecord(cleanDOI(doi)), cache |-> TRUE]
  ELSE IF answer.kind = "response" /\ answer.status = 200
  THEN [record |-> oaDataOf(answer.body), cache |-> TRUE]
  ELSE [record |-> ErrorRecord("Failed to fetch"), cache |-> TRUE]

\* queryUnpaywall after its fetch: the record it returns and whether it
\* hands the record to cacheOAStatus first.
queryUnpaywallResult(doi, answer) ==
  CASE answer.kind = "timeout" ->
         [record |-> ErrorRecord("Unpaywall API timeout"), cache |-> FALSE]
    [] answer.kind = "network" ->
         [record |-> ErrorRecord("Failed to fetch"), cache |-> FALSE]
    [] answer.kind = "bad_json" ->
         [record |-> ErrorRecord("Unexpected token in JSON"), cache |-> FALSE]
    [] answer.kind = "response" /\ answer.status = 404 ->
         [record |-> NotFoundRecord(cleanDOI(doi)), cache |-> TRUE]
    [] answer.kind = "response" /\ answer.status \notin {200, 404} ->
         [record |-> ErrorRecord("Unpaywall API error"), cache |-> FALSE]
    [] OTHER ->
         [record |-> oaDataOf(answer.body), cache |-> TRUE]

\* ------------------------------------------------------------ the OA cache

NoEntry == NoRecord

EmptyStorage == [k \in {} |-> NoEntry]

\* chrome.storage.local.get(key)[key]
storageGet(st, key) == IF key \in DOMAIN st THEN st[key] ELSE NoEntry

\* chrome.storage.local.set({[key]: entry})
storageSet(st, key, entry) ==
  [k \in DOMAIN st \cup {key} |-> IF k = key THEN entry ELSE st[k]]

\* chrome.storage.local.remove(key)
storageRemove(st, key) == [k \in DOMAIN st \ {key} |-> st[k]]

\* A test that finds every stored entry valid.
IsFreshAlways(entry, time) == TRUE

\* A key selection that takes every key of the storage.
allKeysOf(st) == DOMAIN st

\* Object.keys(allStorage).filter(key => key.startsWith('oa_cache_'))
cacheKeysOf(st) == {k \in DOMAIN st : startsWith(k, CACHE_PREFIX)}

\* chrome.storage.local.remove(keys), keys being an array.
storageRemoveAll(st, keys) == [k \in DOMAIN st \ keys |-> st[k]]

\* The test getCachedOAStatus applies to a stored entry.
IsFresh(entry, time) == time - entry.timestamp < CACHE_DURATION

\* getCachedOAStatus(doi) on storage st at the given time: "hit" with the
\* cached data, "expired" (the entry is then removed), or "miss".
getCachedOAStatus(st, doi, time) ==
  LET entry == storageGet(st, cacheKey(doi))
  IN  IF doi = Absent \/ entry = NoEntry THEN [kind |-> "miss", data |-> NoRecord]
      ELSE IF IsFresh(entry, time) THEN [kind |-> "hit", data |-> entry.data]
      ELSE [kind |-> "expired", data |-> NoRecord]

\* The entry cacheOAStatus(doi, oaData) stores.
cacheOAStatus(doi, oaData, time) == [data |-> oaData, timestamp |-> time]

\* Storage st after a cacheOAStatus(doi, oaData) called at the given time
\* whose chrome.storage.local.set succeeded.
cacheWrite(st, doi, oaData, time) ==
  IF doi = Absent \/ oaData = NoRecord THEN st
  ELSE storageSet(st, cacheKey(doi), cacheOAStatus(doi, oaData, time))


\* ---------------------------------------------------- admission decisions

\* A decision object; "" and Absent stand for a property that is not set.
Decision(allowed, reason, category, confidence) ==
  [allowed |-> allowed, reason |-> reason, category |-> category,
   confidence |-> confidence, warning |-> "", suggestion |-> "",
   oa_status |-> "", oa_url |-> Absent, oa_host |-> "", doi |-> Absent,
   error |-> ""]

WhitelistDecision ==
  Decision(TRUE, "Trusted open access source", "whitelist", "high")

BlacklistDecision ==
  [Decision(FALSE, "Content from subscription database", "blacklist", "high")
     EXCEPT !.suggestion = "Try finding an open access version"]

UnknownPdfDecision ==
  [Decision(FALSE, "PDF from unknown source", "unknown_pdf", "medium")
     EXCEPT !.suggestion = "Try accessing the article webpage"]

\* The unknown-source decision without its warning.
UnknownHtmlDecisionNoWarning ==
  Decision(TRUE, "Unknown source", "unknown_html", "low")

UnknownHtmlDecision ==
  [Decision(TRUE, "Unknown source", "unknown_html", "low")
     EXCEPT !.warning = "Copyright status could not be verified"]

VerificationFailedDecision ==
  [Decision(FALSE, "Could not verify open access status", "verification_failed", "low")
     EXCEPT !.suggestion = "Check your internet connection and try again"]

\* The oa_verified decision with the resolver's location copied whenever the
\* record has one.
OaVerifiedDecisionAlwaysUrl(url, doi, oaStatus) ==
  LET result == [Decision(TRUE, "Open access confirmed", "oa_verified", "high")
                   EXCEPT !.oa_status = oaStatus.oa_status, !.doi = doi]
  IN  IF oaStatus.oa_url # Absent
      THEN [result EXCEPT !.oa_url = oaStatus.oa_url,
                          !.oa_host = oaStatus.host_type,
                          !.suggestion = "Open access version available"]
      ELSE result

OaVerifiedDecision(url, doi, oaStatus) ==
  LET result == [Decision(TRUE, "Open access confirmed", "oa_verified", "high")
                   EXCEPT !.oa_status = oaStatus.oa_status, !.doi = doi]
  IN  IF oaStatus.oa_url # Absent /\ oaStatus.oa_url # url
      THEN [result EXCEPT !.oa_url = oaStatus.oa_url,
                          !.oa_host = oaStatus.host_type,
                          !.suggestion = "Open access version available"]
      ELSE result

\* A paywalled decision of medium confidence.
PaywalledDecisionMedium(doi) ==
  [Decision(FALSE, "Article is not openly accessible", "paywalled", "medium")
     EXCEPT !.doi = doi,
            !.suggestion = "Check for preprint versions"]

PaywalledDecision(doi) ==
  [Decision(FALSE, "Article is not openly accessible", "paywalled", "high")
     EXCEPT !.doi = doi,
            !.suggestion = "Check for preprint versions"]

\* The decision of the catch clause of checkCopyright.
ErrorDecision(message) ==
  [Decision(FALSE, "Copyright verification failed", "error", "low")
     EXCEPT !.error = message]

\* const domain = pageData.domain || new URL(url).hostname
pageDomain(pageData) ==
  IF pageData.domain # Absent THEN pageData.domain ELSE hostname(pageData.url)

\* A page whose PDF test ignores contentType.
pageIsPDFFlagOnly(pageData) == pageData.isPDF

\* const isPDF = pageData.isPDF || pageData.contentType === 'pdf'
pageIsPDF(pageData) == pageData.isPDF \/ pageData.contentType = "pdf"

\* Step 2 without the PDF test: a DOI is looked for in the URL of any page
\* that carries none.
pageDOIAnyPage(pageData) ==
  IF pageData.doi = Absent
  THEN extractDOIFromPDFUrl(pageData.url)
  ELSE pageData.doi

\* Step 2 preferring the DOI in the URL of a PDF to the supplied one.
pageDOIUrlFirst(pageData) ==
  IF pageIsPDF(pageData) /\ extractDOIFromPDFUrl(pageData.url) # Absent
  THEN extractDOIFromPDFUrl(pageData.url)
  ELSE pageData.doi

\* Step 2: the DOI of the page, or the one extracted from a PDF's URL.
pageDOI(pageData) ==
  IF pageData.doi = Absent /\ pageIsPDF(pageData)
  THEN extractDOIFromPDFUrl(pageData.url)
  ELSE pageData.doi

\* Step 3 with the PDF test ahead of the blacklist test.
noDoiDecisionPdfFirst(db, domain, isPDF) ==
  IF isPDF THEN UnknownPdfDecision
  ELSE IF isBlacklisted(db, domain) THEN BlacklistDecision
  ELSE UnknownHtmlDecision

\* Step 3: the decision for a page without DOI.
noDoiDecision(db, domain, isPDF) ==
  IF isBlacklisted(db, domain) THEN BlacklistDecision
  ELSE IF isPDF THEN UnknownPdfDecision
  ELSE UnknownHtmlDecision

\* checkCopyright with the whitelist test after the DOI steps.
checkCopyrightEntryWhitelistLast(db, pageData) ==
  IF pageData = NoRecord
  THEN [kind |-> "throw", message |-> "Cannot read properties of null"]
  ELSE IF pageData.domain = Absent /\ ~IsValidURL(pageData.url)
  THEN [kind |-> "throw", message |-> "Invalid URL"]
  ELSE IF pageDOI(pageData) # Absent
  THEN [kind |-> "query", doi |-> pageDOI(pageData)]
  ELSE IF isBlacklisted(db, pageDomain(pageData))
  THEN [kind |-> "return", result |-> BlacklistDecision]
  ELSE IF isWhitelisted(db, pageDomain(pageData))
  THEN [kind |-> "return", result |-> WhitelistDecision]
  ELSE [kind |-> "return",
        result |-> noDoiDecision(db, pageDomain(pageData), pageIsPDF(pageData))]

\* checkCopyright with the blacklist test ahead of the DOI steps.
checkCopyrightEntryBlacklistFirst(db, pageData) ==
  IF pageData = NoRecord
  THEN [kind |-> "throw", message |-> "Cannot read properties of null"]
  ELSE IF pageData.domain = Absent /\ ~IsValidURL(pageData.url)
  THEN [kind |-> "throw", message |-> "Invalid URL"]
  ELSE IF isWhitelisted(db, pageDomain(pageData))
  THEN [kind |-> "return", result |-> WhitelistDecision]
  ELSE IF isBlacklisted(db, pageDomain(pageData))
  THEN [kind |-> "return", result |-> BlacklistDecision]
  ELSE IF pageDOI(pageData) = Absent
  THEN [kind |-> "return",
        result |-> noDoiDecision(db, pageDomain(pageData), pageIsPDF(pageData))]
  ELSE [kind |-> "query", doi |-> pageDOI(pageData)]

\* checkCopyright from its first statement after the dataset is loaded up to
\* its first return, throw, or its call of queryUnpaywall.
checkCopyrightEntry(db, pageData) ==
  IF pageData = NoRecord
  THEN [kind |-> "throw", message |-> "Cannot read properties of null"]
  ELSE IF pageData.domain = Absent /\ ~IsValidURL(pageData.url)
  THEN [kind |-> "throw", message |-> "Invalid URL"]
  ELSE IF isWhitelisted(db, pageDomain(pageData))
  THEN [kind |-> "return", result |-> WhitelistDecision]
  ELSE IF pageDOI(pageData) = Absent
  THEN [kind |-> "return",
        result |-> noDoiDecision(db, pageDomain(pageData), pageIsPDF(pageData))]
  ELSE [kind |-> "query", doi |-> pageDOI(pageData)]

\* checkCopyright that takes a failed registry query for a negative answer.
checkCopyrightVerdictErrorIgnored(url, doi, oaStatus) ==
  IF oaStatus.is_oa
  THEN OaVerifiedDecision(url, doi, oaStatus)
  ELSE PaywalledDecision(doi)

\* checkCopyright from the return of queryUnpaywall to its own return.
checkCopyrightVerdict(url, doi, oaStatus) ==
  IF oaStatus.error # "" /\ ~oaStatus.is_oa
  THEN VerificationFailedDecision
  ELSE IF oaStatus.is_oa
  THEN OaVerifiedDecision(url, doi, oaStatus)
  ELSE PaywalledDecision(doi)


\* ------------------------------------------------------------------- state

VARIABLES
  academicDatabases,  \* the content script's whitelist / blacklist / conditional
  storage,            \* chrome.storage.local: key -> stored value
  now,                \* Date.now(), in seconds
  inv,                \* per caller: the checkCopyright invocation in progress
  prev,               \* the invocation completed before the current one
  ncalls,             \* checkCopyright invocations started so far
  storageFails,       \* whether chrome.storage.local operations reject
  dataset,            \* the academic_dblist.json the extension is packaged with
  clearing,           \* the clearOACache invocation in progress
  extraction,         \* the extractDOIFromPDFUrl call under way: its url and result
  permits,            \* popup: Semaphore.permits of processSelectedTabs
  waiting,            \* popup: Semaphore.waiting, the tabs whose acquire() is queued
  tabStage,           \* popup: per selected tab, how far its callback has come
  batchProcessingActive,  \* popup: a batch of processSelectedTabs is under way
  completed,              \* popup: processSelectedTabs' count of finished tabs
  successful,             \* popup: its count of tabs added to the project
  failed,                 \* popup: its count of tabs that were not added
  api,                \* popup: the apiRequest call under way
  extractionInProgress,   \* content script: the flag of the extractContent handler
  extractionCache,        \* content script: {data, timestamp} of the last extraction
  pageTime,               \* content script: Date.now(), in seconds
  pageLoadExtractionDone, \* content script: the page-load extraction was scheduled
  outstanding,            \* content script: the extractPageContent run not yet continued
  requests,               \* content script: per extractContent request, its path and responses
  loginStatus,            \* popup: loginStatus.isLoggedIn
  copyrightChecker,       \* popup: whether the checker script is loaded
  currentPageData,        \* popup: the page shown in single-tab mode
  currentCopyrightStatus, \* popup: the decision shown for that page
  isProcessing,           \* popup: an addToProject request is under way
  added,                  \* popup: the add button reads 'Added'
  extracting,             \* popup: extractPageContent runs under way
  nextracts,              \* popup: extractPageContent runs started so far
  checkRuns,              \* popup: the checkCurrentPageCopyright runs
  adding,                 \* popup: the addToProject run
  batch,                  \* popup: per tab, its processTabContent run
  posts,                  \* the add_web_content requests sent so far
  evaluated               \* the pages for which checkCopyright returned allowed = true

\* The variables of the copyright checker.
cvars == <<academicDatabases, storage, now, inv, prev, ncalls, storageFails,
           dataset, clearing>>

\* The variables of the popup.
pvars == <<loginStatus, copyrightChecker, currentPageData, currentCopyrightStatus,
           isProcessing, added, extracting, nextracts, checkRuns, adding, batch,
           posts, evaluated>>

\* The variables of the content script's extraction handlers.
evars == <<extractionInProgress, extractionCache, pageTime, pageLoadExtractionDone,
           outstanding, requests>>

\* The progress of processSelectedTabs.
bvars == <<batchProcessingActive, completed, successful, failed>>

\* The variables of the DOI extractor called on its own and of the
\* semaphore of processSelectedTabs.
svars == <<extraction, permits, waiting, tabStage, bvars, api, evars>>

vars == <<cvars, pvars, svars>>

\* The callers that may have a checkCopyright invocation in progress.
Callers == {"a", "b"}

\* The instants of Date.now(): they give an entry the ages 0 and 1, the age
\* CACHE_DURATION exactly, and the age CACHE_DURATION + 1.
Instants == {0, CACHE_DURATION, CACHE_DURATION + 1}

IdleCall ==
  [pc |-> "idle", pageData |-> NoRecord, url |-> Absent, doi |-> Absent,
   oaStatus |-> NoRecord, stamp |-> 0, answer |-> "none", reqs |-> 0,
   result |-> NoRecord]

NoPrev == [doi |-> Absent, answer |-> "none", stamp |-> 0, result |-> NoRecord]

\* What is remembered of a completed invocation.
Summary(c) == [doi |-> c.doi, answer |-> c.answer, stamp |-> c.stamp, result |-> c.result]

\* How the registry's answer is remembered: "not_found" for a 404,
\* "http_error" for another error status, "timeout", "network" or "bad_json"
\* for a request that did not yield a document, "oa" for a document with
\* is_oa = true and "closed" for any other document.
AnswerTag(answer) ==
  IF answer.kind # "response" THEN answer.kind
  ELSE IF answer.status = 404 THEN "not_found"
  ELSE IF answer.status # 200 THEN "http_error"
  ELSE IF answer.body.has_is_oa /\ answer.body.is_oa THEN "oa"
  ELSE "closed"

\* Outcomes of one chrome.storage.local operation.
StorageOutcomes == IF storageFails THEN {"error"} ELSE {"ok"}

\* checkCopyright returns `result`.
Returned(c, result) == [c EXCEPT !.pc = "done", !.result = result]

\* A return of queryUnpaywall that marks a record obtained when the cache
\* already held an entry.
ResolvedMarked(c, oaStatus, tag) ==
  LET marked == IF DOMAIN storage = {} THEN oaStatus
                ELSE [oaStatus EXCEPT !.version = "later"]
  IN  [c EXCEPT !.pc = "done", !.oaStatus = marked, !.answer = tag,
                !.result = checkCopyrightVerdict(c.url, c.doi, marked)]

\* queryUnpaywall returns oaStatus and checkCopyright runs to its return.
Resolved(c, oaStatus, tag) ==
  [c EXCEPT !.pc = "done", !.oaStatus = oaStatus, !.answer = tag,
            !.result = checkCopyrightVerdict(c.url, c.doi, oaStatus)]

\* checkCopyright without its try/catch: an exception leaves the invocation.
EnteredUncaught(c, db) ==
  LET e == checkCopyrightEntry(db, c.pageData)
  IN  CASE e.kind = "throw"  -> [c EXCEPT !.pc = "thrown"]
        [] e.kind = "return" -> Returned(c, e.result)
        [] OTHER -> [c EXCEPT !.pc = "storage_get", !.doi = e.doi,
                              !.url = c.pageData.url]

\* checkCopyright once the dataset is loaded: it returns, or it awaits the
\* cache read of queryUnpaywall.
Entered(c, db) ==
  LET e == checkCopyrightEntry(db, c.pageData)
  IN  CASE e.kind = "throw"  -> Returned(c, ErrorDecision(e.message))
        [] e.kind = "return" -> Returned(c, e.result)
        [] OTHER -> [c EXCEPT !.pc = "storage_get", !.doi = e.doi,
                              !.url = c.pageData.url]

\* ------------------------------------------------------- the popup's data

\* An article page of a trusted open-access host.
PageOa ==
  [url |-> UrlOa, domain |-> DomOa, doi |-> Absent, isPDF |-> FALSE,
   contentType |-> "web"]

\* A page of an unknown host, without DOI.
PageUnknown ==
  [url |-> UrlRelative, domain |-> DomOther, doi |-> Absent, isPDF |-> FALSE,
   contentType |-> "web"]

\* A PDF of a subscription database, without DOI.
PagePayPdf ==
  [url |-> UrlPage, domain |-> DomPay, doi |-> Absent, isPDF |-> TRUE,
   contentType |-> "pdf"]

\* An article page of a subscription database that carries a DOI.
PageDoi ==
  [url |-> UrlPage, domain |-> DomPay, doi |-> Doi1, isPDF |-> FALSE,
   contentType |-> "web"]

\* The pages the popup gets from a tab.
PopupPages == {PageOa, PageUnknown, PagePayPdf, PageDoi}

\* The databases after a successful load.
LoadedDatabases ==
  loadAcademicDatabases(EmptyDatabases, [kind |-> "ok", data |-> GoodDataset]).db

\* Every decision checker.checkCopyright(pageData) can resolve to.
CheckCopyrightOutcomes(pageData) ==
  UNION {LET e == checkCopyrightEntry(db, pageData)
         IN  CASE e.kind = "throw"  -> {ErrorDecision(e.message)}
               [] e.kind = "return" -> {e.result}
               [] OTHER ->
                    {checkCopyrightVerdict(pageData.url, e.doi,
                                           queryUnpaywallResult(e.doi, a).record) :
                       a \in RegistryAnswers(cleanDOI(e.doi))}
         : db \in {EmptyDatabases, LoadedDatabases}}

\* The decisions of the popup's pages.
PageOutcomes == [pageData \in PopupPages |-> CheckCopyrightOutcomes(pageData)]

\* The status checkCurrentPageCopyright stores when the checker is unavailable.
CheckerUnavailableStatus ==
  [Decision(TRUE, "Copyright checker unavailable", "error", "low")
     EXCEPT !.warning = "Could not verify copyright status"]

\* The status the catch clause of checkCurrentPageCopyright stores.
CheckFailedStatus ==
  [Decision(TRUE, "Copyright check failed", "error", "low")
     EXCEPT !.warning = "Could not verify copyright status due to error",
            !.error = "error"]

\* Number of extractPageContent runs in one behaviour.
MaxExtractions == 2

\* Number of tabs selected for batch processing.
MaxTabs == 2

Tabs == 1..MaxTabs

IdleRun == [stage |-> "idle", page |-> NoRecord]

\* The runs of checkCurrentPageCopyright under way, without the i-th, which
\* has returned.
Finished(runs, i) == SubSeq(runs, 1, i - 1) \o SubSeq(runs, i + 1, Len(runs))

InitPopup ==
  /\ loginStatus = FALSE
  /\ copyrightChecker = FALSE
  /\ currentPageData = NoRecord
  /\ currentCopyrightStatus = NoRecord
  /\ isProcessing = FALSE
  /\ added = FALSE
  /\ extracting = 0
  /\ nextracts = 0
  /\ checkRuns = <<>>
  /\ adding = IdleRun
  /\ batch = [t \in Tabs |-> IdleRun]
  /\ posts = {}
  /\ evaluated = {}

\* CONFIG.MAX_RETRIES
MAX_RETRIES == 3

\* No apiRequest call yet.  retries is the argument of the outermost call,
\* left the argument of the current (recursive) call, attempts the fetches
\* sent, status the HTTP status of the last response (0 when there was none)
\* and failure what the last attempt ended with.
IdleRequest ==
  [pc |-> "idle", retries |-> 0, left |-> 0, attempts |-> 0, status |-> 0,
   failure |-> "none"]

\* extractionCache = { data: null, timestamp: 0 }
EmptyCache == [data |-> NoRecord, timestamp |-> 0]

\* No extractPageContent run of the content script awaits its continuation.
NoRun == [kind |-> "none", request |-> 0, now |-> 0]

\* No extraction on its own, no batch, no API request; the content script
\* has just been loaded.
InitOther ==
  /\ extraction = [pc |-> "idle", url |-> Absent, doi |-> Absent]
  /\ permits = 0
  /\ waiting = <<>>
  /\ tabStage = <<>>
  /\ batchProcessingActive = FALSE
  /\ completed = 0
  /\ successful = 0
  /\ failed = 0
  /\ api = IdleRequest
  /\ extractionInProgress = FALSE
  /\ extractionCache = EmptyCache
  /\ pageTime = 0
  /\ pageLoadExtractionDone = FALSE
  /\ outstanding = NoRun
  /\ requests = <<>>

InitProgram ==
  /\ academicDatabases = EmptyDatabases
  /\ storage = EmptyStorage
  /\ now = 0
  /\ inv = [p \in Callers |-> IdleCall]
  /\ prev = NoPrev
  /\ ncalls = 0

\* clearOACache is not running.
IdleClear == [pc |-> "idle", cacheKeys |-> {}, count |-> 0, failed |-> FALSE]

\* The extension as packaged with the complete dataset, a new profile.
Init ==
  /\ InitProgram
  /\ storageFails = FALSE
  /\ dataset = GoodDataset
  /\ clearing = IdleClear
  /\ InitPopup
  /\ InitOther

\* checkCopyright(pageData) is called; with an empty whitelist it first
\* awaits loadAcademicDatabases().  A behaviour follows one page: the first
\* invocation takes any pageData, a later one checks the same page again.
CheckCopyright(p) ==
  /\ inv[p].pc \in {"idle", "done"}
  /\ ncalls < MaxCalls
  /\ \E pageData \in (IF inv[p].pc = "done" THEN {inv[p].pageData} ELSE PageInputs) :
       LET c == [IdleCall EXCEPT !.pageData = pageData]
       IN  inv' = [inv EXCEPT ![p] =
                     IF Len(academicDatabases.whitelist) = 0
                     THEN [c EXCEPT !.pc = "load"]
                     ELSE Entered(c, academicDatabases)]
  /\ prev' = IF inv[p].pc = "done" THEN Summary(inv[p]) ELSE prev
  /\ ncalls' = ncalls + 1
  /\ UNCHANGED <<academicDatabases, storage, now, storageFails,
                 dataset, clearing, pvars, svars>>

\* The loadAcademicDatabases() awaited by checkCopyright completes.
CheckCopyrightLoaded(p) ==
  /\ inv[p].pc = "load"
  /\ \E fetched \in DatasetFetches(dataset) :
       LET db == loadAcademicDatabases(academicDatabases, fetched).db
       IN  /\ academicDatabases' = db
           /\ inv' = [inv EXCEPT ![p] = Entered(inv[p], db)]
  /\ UNCHANGED <<storage, now, prev, ncalls, storageFails,
                 dataset, clearing, pvars, svars>>

\* getCachedOAStatus: chrome.storage.local.get completes.  A fresh entry is
\* returned by queryUnpaywall at once; otherwise the registry request is sent
\* (after the removal of an expired entry).
GetCachedOAStatus(p) ==
  /\ inv[p].pc = "storage_get"
  /\ \E outcome \in StorageOutcomes :
       LET c      == inv[p]
           lookup == IF outcome = "ok"
                     THEN getCachedOAStatus(storage, c.doi, now)
                     ELSE [kind |-> "miss", data |-> NoRecord]
       IN  inv' = [inv EXCEPT ![p] =
                     CASE lookup.kind = "hit" -> Resolved(c, lookup.data, "cached")
                       [] lookup.kind = "expired" -> [c EXCEPT !.pc = "storage_remove"]
                       [] OTHER -> [c EXCEPT !.pc = "fetch", !.reqs = c.reqs + 1]]
  /\ UNCHANGED <<academicDatabases, storage, now, prev, ncalls, storageFails,
                 dataset, clearing, pvars, svars>>

\* getCachedOAStatus: chrome.storage.local.remove of the expired entry
\* completes; queryUnpaywall sends the registry request.
RemoveExpired(p) ==
  /\ inv[p].pc = "storage_remove"
  /\ \E outcome \in StorageOutcomes :
       storage' = IF outcome = "ok"
                  THEN storageRemove(storage, cacheKey(inv[p].doi))
                  ELSE storage
  /\ inv' = [inv EXCEPT ![p] = [@ EXCEPT !.pc = "fetch", !.reqs = @ + 1]]
  /\ UNCHANGED <<academicDatabases, now, prev, ncalls, storageFails,
                 dataset, clearing, pvars, svars>>

\* queryUnpaywall: the registry request completes, times out or fails.
QueryUnpaywall(p) ==
  /\ inv[p].pc = "fetch"
  /\ \E answer \in RegistryAnswers(cleanDOI(inv[p].doi)) :
       LET c == inv[p]
           r == queryUnpaywallResult(c.doi, answer)
       IN  inv' = [inv EXCEPT ![p] =
                     IF r.cache
                     THEN [c EXCEPT !.pc = "storage_set", !.oaStatus = r.record,
                                    !.stamp = now,
                                    !.answer = AnswerTag(answer)]
                     ELSE Resolved(c, r.record, AnswerTag(answer))]
  /\ UNCHANGED <<academicDatabases, storage, now, prev, ncalls, storageFails,
                 dataset, clearing, pvars, svars>>

\* cacheOAStatus: chrome.storage.local.set completes; queryUnpaywall returns.
CacheOAStatus(p) ==
  /\ inv[p].pc = "storage_set"
  /\ \E outcome \in StorageOutcomes :
       storage' = IF outcome = "ok"
                  THEN cacheWrite(storage, cleanDOI(inv[p].doi),
                                  inv[p].oaStatus, inv[p].stamp)
                  ELSE storage
  /\ inv' = [inv EXCEPT ![p] = Resolved(@, @.oaStatus, @.answer)]
  /\ UNCHANGED <<academicDatabases, now, prev, ncalls, storageFails,
                 dataset, clearing, pvars, svars>>

\* loadAcademicDatabases() called on its own: at script load, or by a user of
\* window.copyrightChecker.
LoadAcademicDatabases ==
  /\ \E fetched \in DatasetFetches(dataset) :
       academicDatabases' = loadAcademicDatabases(academicDatabases, fetched).db
  /\ UNCHANGED <<storage, now, inv, prev, ncalls, storageFails,
                 dataset, clearing, pvars, svars>>

\* Time passes.
Tick ==
  /\ \E t \in Instants : t > now /\ now' = t
  /\ UNCHANGED <<academicDatabases, storage, inv, prev, ncalls, storageFails,
                 dataset, clearing, pvars, svars>>

Next ==
  \/ CheckCopyright("a")
  \/ CheckCopyrightLoaded("a")
  \/ GetCachedOAStatus("a")
  \/ RemoveExpired("a")
  \/ QueryUnpaywall("a")
  \/ CacheOAStatus("a")
  \/ LoadAcademicDatabases
  \/ Tick

\* One checkCopyright invocation at a time, reliable storage.
Spec == Init /\ [][Next]_vars


\* --------------------------------------------------------------- the popup

\* checkLoginStatus() or a loginStatusChanged message sets loginStatus.
LoginStatusChanged ==
  /\ \E b \in BOOLEAN : loginStatus' = b
  /\ UNCHANGED <<cvars, svars, copyrightChecker, currentPageData, currentCopyrightStatus,
                 isProcessing, added, extracting, nextracts, checkRuns, adding,
                 batch, posts, evaluated>>

\* extractPageContent() starts (from initialize, or a click on refresh while
\* no request is under way): it resets the copyright status.
ExtractPageContent ==
  /\ loginStatus
  /\ ~isProcessing
  /\ nextracts < MaxExtractions
  /\ currentCopyrightStatus' = NoRecord
  /\ extracting' = extracting + 1
  /\ nextracts' = nextracts + 1
  /\ UNCHANGED <<cvars, svars, loginStatus, copyrightChecker, currentPageData, isProcessing,
                 added, checkRuns, adding, batch, posts, evaluated>>

\* extractPageContent() gets the page (a PDF tab or the content script's
\* answer) or fails; on success it calls checkCurrentPageCopyright(), which
\* runs up to its await of initCopyrightChecker().
ExtractPageContentReturn ==
  /\ extracting > 0
  /\ extracting' = extracting - 1
  /\ \E page \in PopupPages \cup {NoRecord} :
       IF page = NoRecord
       THEN /\ currentPageData' = NoRecord
            /\ currentCopyrightStatus' = NoRecord
            /\ isProcessing' = FALSE
            /\ UNCHANGED checkRuns
       ELSE /\ currentPageData' = page
            /\ checkRuns' = Append(checkRuns, [stage |-> "init", page |-> NoRecord])
            /\ isProcessing' = IF page.isPDF THEN isProcessing ELSE FALSE
            /\ UNCHANGED currentCopyrightStatus
  /\ UNCHANGED <<cvars, svars, loginStatus, copyrightChecker, added, nextracts, adding,
                 batch, posts, evaluated>>

\* checkCurrentPageCopyright: initCopyrightChecker() returns the checker or
\* null; with the checker, checkCopyright(currentPageData) is called.
CheckCurrentPageCopyrightInit(i) ==
  /\ checkRuns[i].stage = "init"
  /\ \E loaded \in (IF copyrightChecker THEN {TRUE} ELSE BOOLEAN) :
       /\ copyrightChecker' = loaded
       /\ IF ~loaded
          THEN /\ currentCopyrightStatus' = CheckerUnavailableStatus
               /\ checkRuns' = Finished(checkRuns, i)
          ELSE IF currentPageData = NoRecord
          THEN /\ currentCopyrightStatus' = CheckFailedStatus
               /\ checkRuns' = Finished(checkRuns, i)
          ELSE /\ checkRuns' = [checkRuns EXCEPT ![i] =
                                  [stage |-> "checking", page |-> currentPageData]]
               /\ UNCHANGED currentCopyrightStatus
  /\ UNCHANGED <<cvars, svars, loginStatus, currentPageData, isProcessing, added, extracting,
                 nextracts, adding, batch, posts, evaluated>>

\* checkCurrentPageCopyright: checkCopyright resolves; the decision becomes
\* currentCopyrightStatus and the badge is drawn (which reads
\* currentPageData.url for an alternative OA link).
CheckCurrentPageCopyrightReturn(i) ==
  /\ checkRuns[i].stage = "checking"
  /\ \E d \in PageOutcomes[checkRuns[i].page] :
       /\ evaluated' = IF d.allowed THEN evaluated \cup {checkRuns[i].page} ELSE evaluated
       /\ currentCopyrightStatus' =
            IF d.category = "oa_verified" /\ d.oa_url # Absent /\ currentPageData = NoRecord
            THEN CheckFailedStatus
            ELSE d
  /\ checkRuns' = Finished(checkRuns, i)
  /\ UNCHANGED <<cvars, svars, loginStatus, copyrightChecker, currentPageData, isProcessing,
                 added, extracting, nextracts, adding, batch, posts>>

\* A contentExtracted message replaces currentPageData.
ContentExtractedMessage ==
  /\ \E page \in PopupPages : currentPageData' = page
  /\ UNCHANGED <<cvars, svars, loginStatus, copyrightChecker, currentCopyrightStatus,
                 isProcessing, added, extracting, nextracts, checkRuns, adding,
                 batch, posts, evaluated>>

\* A click on "Add to Project" gets past the guards of the click handler and
\* of addToProject (the user confirms a warning, if one is shown).
AddToProject ==
  /\ loginStatus
  /\ ~isProcessing
  /\ ~added
  /\ currentPageData # NoRecord
  /\ currentCopyrightStatus # NoRecord
  /\ currentCopyrightStatus.allowed
  /\ isProcessing' = TRUE
  /\ adding' = [stage |-> "tab", page |-> NoRecord]
  /\ UNCHANGED <<cvars, svars, loginStatus, copyrightChecker, currentPageData,
                 currentCopyrightStatus, added, extracting, nextracts, checkRuns,
                 batch, posts, evaluated>>

\* addToProject: getCurrentTab() returns; with a tab, the payload is built
\* from currentPageData and the add_web_content request is sent.
AddToProjectSend ==
  /\ adding.stage = "tab"
  /\ \E tab \in BOOLEAN :
       IF tab /\ currentPageData # NoRecord
       THEN /\ posts' = posts \cup {[mode |-> "single", page |-> currentPageData]}
            /\ adding' = [stage |-> "post", page |-> currentPageData]
            /\ UNCHANGED isProcessing
       ELSE /\ adding' = IdleRun
            /\ isProcessing' = FALSE
            /\ UNCHANGED posts
  /\ UNCHANGED <<cvars, svars, loginStatus, copyrightChecker, currentPageData,
                 currentCopyrightStatus, added, extracting, nextracts, checkRuns,
                 batch, evaluated>>

\* addToProject: the request completes; the finally clause resets isProcessing.
AddToProjectReturn ==
  /\ adding.stage = "post"
  /\ \E success \in BOOLEAN : added' = (added \/ success)
  /\ adding' = IdleRun
  /\ isProcessing' = FALSE
  /\ UNCHANGED <<cvars, svars, loginStatus, copyrightChecker, currentPageData,
                 currentCopyrightStatus, extracting, nextracts, checkRuns, batch,
                 posts, evaluated>>

\* processTabContent(tab) starts for a selected tab.
ProcessTabContent(t) ==
  /\ loginStatus
  /\ batch[t].stage = "idle"
  /\ batch' = [batch EXCEPT ![t].stage = "extract"]
  /\ UNCHANGED <<cvars, svars, loginStatus, copyrightChecker, currentPageData,
                 currentCopyrightStatus, isProcessing, added, extracting, nextracts,
                 checkRuns, adding, posts, evaluated>>

\* processTabContent: the tab's page data is obtained, or the extraction fails.
ProcessTabExtracted(t) ==
  /\ batch[t].stage = "extract"
  /\ \E page \in PopupPages \cup {NoRecord} :
       batch' = [batch EXCEPT ![t] =
                   IF page = NoRecord THEN [stage |-> "failed", page |-> NoRecord]
                   ELSE [stage |-> "init", page |-> page]]
  /\ UNCHANGED <<cvars, svars, loginStatus, copyrightChecker, currentPageData,
                 currentCopyrightStatus, isProcessing, added, extracting, nextracts,
                 checkRuns, adding, posts, evaluated>>

\* processTabContent: initCopyrightChecker() returns; without a checker the
\* tab fails with 'Copyright verification unavailable'.
ProcessTabChecker(t) ==
  /\ batch[t].stage = "init"
  /\ \E loaded \in (IF copyrightChecker THEN {TRUE} ELSE BOOLEAN) :
       /\ copyrightChecker' = loaded
       /\ batch' = [batch EXCEPT ![t].stage = IF loaded THEN "check" ELSE "failed"]
  /\ UNCHANGED <<cvars, svars, loginStatus, currentPageData, currentCopyrightStatus,
                 isProcessing, added, extracting, nextracts, checkRuns, adding,
                 posts, evaluated>>

\* processTabContent: checkCopyright resolves; a page that is not allowed
\* fails, for an allowed one the add_web_content request is sent.
ProcessTabChecked(t) ==
  /\ batch[t].stage = "check"
  /\ \E d \in PageOutcomes[batch[t].page] :
       /\ evaluated' = IF d.allowed THEN evaluated \cup {batch[t].page} ELSE evaluated
       /\ IF d.allowed
          THEN /\ posts' = posts \cup {[mode |-> "batch", page |-> batch[t].page]}
               /\ batch' = [batch EXCEPT ![t].stage = "post"]
          ELSE /\ batch' = [batch EXCEPT ![t].stage = "failed"]
               /\ UNCHANGED posts
  /\ UNCHANGED <<cvars, svars, loginStatus, copyrightChecker, currentPageData,
                 currentCopyrightStatus, isProcessing, added, extracting, nextracts,
                 checkRuns, adding>>

\* processTabContent: the request completes.
ProcessTabPosted(t) ==
  /\ batch[t].stage = "post"
  /\ \E success \in BOOLEAN :
       batch' = [batch EXCEPT ![t].stage = IF success THEN "added" ELSE "failed"]
  /\ UNCHANGED <<cvars, svars, loginStatus, copyrightChecker, currentPageData,
                 currentCopyrightStatus, isProcessing, added, extracting, nextracts,
                 checkRuns, adding, posts, evaluated>>

NextPopup ==
  \/ LoginStatusChanged
  \/ ExtractPageContent
  \/ ExtractPageContentReturn
  \/ \E i \in 1..MaxExtractions : i <= Len(checkRuns) /\ CheckCurrentPageCopyrightInit(i)
  \/ \E i \in 1..MaxExtractions : i <= Len(checkRuns) /\ CheckCurrentPageCopyrightReturn(i)
  \/ ContentExtractedMessage
  \/ AddToProject
  \/ AddToProjectSend
  \/ AddToProjectReturn

NextBatch ==
  \/ LoginStatusChanged
  \/ \E t \in Tabs : ProcessTabContent(t)
  \/ \E t \in Tabs : ProcessTabExtracted(t)
  \/ \E t \in Tabs : ProcessTabChecker(t)
  \/ \E t \in Tabs : ProcessTabChecked(t)
  \/ \E t \in Tabs : ProcessTabPosted(t)

\* The popup in single-tab mode.
SpecPopup == Init /\ [][NextPopup]_vars

\* The popup in batch mode.
SpecBatch == Init /\ [][NextBatch]_vars

\* chrome.storage.local becomes unavailable: its operations reject from now on.
StorageBreaks ==
  /\ ~storageFails
  /\ storageFails' = TRUE
  /\ UNCHANGED <<academicDatabases, storage, now, inv, prev, ncalls, dataset,
                 clearing, pvars, svars>>

NextStorageFaults ==
  \/ CheckCopyright("a")
  \/ CheckCopyrightLoaded("a")
  \/ GetCachedOAStatus("a")
  \/ QueryUnpaywall("a")
  \/ CacheOAStatus("a")
  \/ LoadAcademicDatabases
  \/ StorageBreaks

\* The copyright checker with a chrome.storage.local that may become unavailable.
SpecStorageFaults == Init /\ [][NextStorageFaults]_vars


\* ------------------------------------------------------ cache maintenance

\* The key under which the context menu leaves a selection for the popup.
PendingSelectionKey ==
  <<"p", "e", "n", "d", "i", "n", "g", "S", "e", "l", "e", "c", "t", "i", "o", "n">>

\* A second article, looked up in an earlier session.
Doi2 == <<"1", "0", ".", "5", "/", "x">>

\* What chrome.storage.local holds when the content script is loaded on such
\* a profile: a pending selection and the cache entry of an earlier session.
StoredBefore ==
  cacheWrite(storageSet(EmptyStorage, PendingSelectionKey, PageUnknown),
             Doi2, NotFoundRecord(Doi2), 0)

\* The extension started on a profile that already has stored state.
InitMaintenance ==
  /\ academicDatabases = EmptyDatabases
  /\ storage = StoredBefore
  /\ now = 0
  /\ inv = [p \in Callers |-> IdleCall]
  /\ prev = NoPrev
  /\ ncalls = 0
  /\ storageFails = FALSE
  /\ dataset = GoodDataset
  /\ clearing = IdleClear
  /\ InitPopup
  /\ InitOther

\* clearOACache returns count, or 0 from its catch clause.
Cleared(count, rejected) ==
  [pc |-> "done", cacheKeys |-> {}, count |-> count, failed |-> rejected]

\* clearOACache() is called: chrome.storage.local.get(null) completes or
\* rejects.  With no cache key, or on a rejection, clearOACache returns 0.
ClearOACache ==
  /\ clearing.pc \in {"idle", "done"}
  /\ \E outcome \in {"ok", "error"} :
       clearing' = IF outcome = "error" THEN Cleared(0, TRUE)
                   ELSE IF cacheKeysOf(storage) = {} THEN Cleared(0, FALSE)
                   ELSE [IdleClear EXCEPT !.pc = "remove",
                                          !.cacheKeys = cacheKeysOf(storage)]
  /\ UNCHANGED <<academicDatabases, storage, now, inv, prev, ncalls, storageFails,
                 dataset, pvars, svars>>

\* clearOACache: chrome.storage.local.remove(cacheKeys) completes and the
\* number of keys is returned, or it rejects and the catch clause returns 0.
ClearOACacheRemove ==
  /\ clearing.pc = "remove"
  /\ \E outcome \in {"ok", "error"} :
       IF outcome = "ok"
       THEN /\ storage' = storageRemoveAll(storage, clearing.cacheKeys)
            /\ clearing' = Cleared(Cardinality(clearing.cacheKeys), FALSE)
       ELSE /\ storage' = storage
            /\ clearing' = Cleared(0, TRUE)
  /\ UNCHANGED <<academicDatabases, now, inv, prev, ncalls, storageFails,
                 dataset, pvars, svars>>

NextMaintenance ==
  \/ CheckCopyright("a")
  \/ CheckCopyrightLoaded("a")
  \/ GetCachedOAStatus("a")
  \/ QueryUnpaywall("a")
  \/ CacheOAStatus("a")
  \/ ClearOACache
  \/ ClearOACacheRemove

\* The copyright checker and clearOACache on a storage shared with other
\* state; an operation of clearOACache may be rejected.
SpecMaintenance == InitMaintenance /\ [][NextMaintenance]_vars

\* ------------------------------------------------- whichever dataset file

\* The extension as packaged with either document, a new profile.
InitDatasets ==
  /\ InitProgram
  /\ storageFails = FALSE
  /\ dataset \in Datasets
  /\ clearing = IdleClear
  /\ InitPopup
  /\ InitOther

NextDatasets ==
  \/ CheckCopyright("a")
  \/ CheckCopyrightLoaded("a")
  \/ GetCachedOAStatus("a")
  \/ QueryUnpaywall("a")
  \/ CacheOAStatus("a")
  \/ LoadAcademicDatabases

\* The copyright checker with a dataset file that may lack sections.
SpecDatasets == InitDatasets /\ [][NextDatasets]_vars

\* ------------------------------------------- the popup's tab concurrency

\* CONFIG.MAX_CONCURRENT_TABS
MAX_CONCURRENT_TABS == 3

\* The largest number of tabs selected for a batch.
MaxSelectedTabs == 5

\* new Semaphore(permits)
Semaphore(n) == [permits |-> n, waiting |-> <<>>]

\* acquire() called for tab: the permit is taken at once when there is one,
\* otherwise the tab's continuation is pushed onto waiting.
acquire(sem, tab) ==
  IF sem.permits > 0
  THEN [sem EXCEPT !.permits = @ - 1]
  ELSE [sem EXCEPT !.waiting = Append(@, tab)]

\* A release() that hands the permit to the acquirer that called last.
releaseNewestFirst(sem) ==
  IF Len(sem.waiting) > 0
  THEN [permits |-> sem.permits + 1 - 1,
        waiting |-> SubSeq(sem.waiting, 1, Len(sem.waiting) - 1)]
  ELSE [sem EXCEPT !.permits = @ + 1]

\* release(): permits++, then the continuation at the head of waiting, if
\* any, is shifted out and run: it takes the permit (permits--).
release(sem) ==
  IF Len(sem.waiting) > 0
  THEN [permits |-> sem.permits + 1 - 1, waiting |-> Tail(sem.waiting)]
  ELSE [sem EXCEPT !.permits = @ + 1]

RECURSIVE acquireEach(_, _, _)
\* selectedTabIds.map(...): acquire() is called for tabs i..n in turn.
acquireEach(sem, i, n) ==
  IF i > n THEN sem ELSE acquireEach(acquire(sem, i), i + 1, n)

\* The tabs whose continuation is in a waiting list.
Queued(w) == {w[k] : k \in 1..Len(w)}

\* A finally clause that counts only the tabs whose processTabContent returned.
tabSettledReturnsOnly(counts, result) ==
  [completed |-> counts.completed + (IF result = "throw" THEN 0 ELSE 1),
   successful |-> counts.successful + (IF result = "success" THEN 1 ELSE 0),
   failed |-> counts.failed + (IF result = "failure" THEN 1 ELSE 0)]

\* The counters after a tab's callback: successful++ when processTabContent
\* returned success, failed++ when it returned a failure or when the try
\* block threw, and completed++ in the finally clause.
tabSettled(counts, result) ==
  [completed |-> counts.completed + 1,
   successful |-> counts.successful + (IF result = "success" THEN 1 ELSE 0),
   failed |-> counts.failed + (IF result = "success" THEN 0 ELSE 1)]

\* A click on "Process Selected Tabs" while no batch is under way, logged
\* in, with n tabs and a project selected: processSelectedTabs sets
\* batchProcessingActive, creates the semaphore, and every tab's callback
\* calls acquire() before the first await.
ProcessSelectedTabs ==
  /\ ~batchProcessingActive
  /\ loginStatus
  /\ tabStage = <<>>
  /\ batchProcessingActive' = TRUE
  /\ UNCHANGED <<completed, successful, failed>>
  /\ \E n \in 1..MaxSelectedTabs :
       LET sem == acquireEach(Semaphore(MAX_CONCURRENT_TABS), 1, n)
       IN  /\ permits' = sem.permits
           /\ waiting' = sem.waiting
           /\ tabStage' = [i \in 1..n |-> IF i \in Queued(sem.waiting)
                                          THEN "waiting" ELSE "granted"]
  /\ UNCHANGED <<cvars, pvars, extraction, api, evars>>

\* The callback of acquire().then runs for a tab that was granted a permit:
\* the first tab calls processTabContent, the others first await the delay
\* of TAB_PROCESSING_DELAY.
TabGranted(i) ==
  /\ i \in DOMAIN tabStage
  /\ tabStage[i] = "granted"
  /\ tabStage' = [tabStage EXCEPT ![i] = IF i = 1 THEN "processing" ELSE "delay"]
  /\ UNCHANGED <<cvars, pvars, extraction, permits, waiting, bvars, api, evars>>

\* The delay of a tab is over: it calls processTabContent.
TabDelayed(i) ==
  /\ i \in DOMAIN tabStage
  /\ tabStage[i] = "delay"
  /\ tabStage' = [tabStage EXCEPT ![i] = "processing"]
  /\ UNCHANGED <<cvars, pvars, extraction, permits, waiting, bvars, api, evars>>

\* processTabContent of a tab has returned or the try block has thrown: the
\* counters are updated and the finally clause calls release(), which
\* grants the permit to the head of waiting.
TabReleases(i) ==
  /\ i \in DOMAIN tabStage
  /\ tabStage[i] = "processing"
  /\ \E result \in {"success", "failure", "throw"} :
       LET counts == tabSettled([completed |-> completed, successful |-> successful,
                                 failed |-> failed], result)
       IN  /\ completed' = counts.completed
           /\ successful' = counts.successful
           /\ failed' = counts.failed
  /\ UNCHANGED batchProcessingActive
  /\ LET sem == release([permits |-> permits, waiting |-> waiting])
     IN  /\ permits' = sem.permits
         /\ waiting' = sem.waiting
         /\ tabStage' = [j \in DOMAIN tabStage |->
                           IF j = i THEN "released"
                           ELSE IF j \in Queued(waiting) \ Queued(sem.waiting)
                           THEN "granted"
                           ELSE tabStage[j]]
  /\ UNCHANGED <<cvars, pvars, extraction, api, evars>>

\* Promise.all(processingPromises) has resolved, every callback having run
\* its finally clause: after the last updateProgress and two short delays
\* processSelectedTabs resets batchProcessingActive.
ProcessSelectedTabsCompletes ==
  /\ batchProcessingActive
  /\ \A i \in DOMAIN tabStage : tabStage[i] = "released"
  /\ batchProcessingActive' = FALSE
  /\ UNCHANGED <<cvars, pvars, extraction, permits, waiting, tabStage, completed,
                 successful, failed, api, evars>>

NextSemaphore ==
  \/ LoginStatusChanged
  \/ ProcessSelectedTabs
  \/ \E i \in 1..MaxSelectedTabs : TabGranted(i)
  \/ \E i \in 1..MaxSelectedTabs : TabDelayed(i)
  \/ \E i \in 1..MaxSelectedTabs : TabReleases(i)
  \/ ProcessSelectedTabsCompletes

\* One batch of the popup: the tabs' callbacks interleave at their awaits.
SpecSemaphore == Init /\ [][NextSemaphore]_vars

\* The same, every timer firing and every call of a tab's callback
\* returning.
SpecSemaphoreLive ==
  /\ SpecSemaphore
  /\ \A i \in 1..MaxSelectedTabs :
       WF_vars(TabGranted(i)) /\ WF_vars(TabDelayed(i)) /\ WF_vars(TabReleases(i))
  /\ WF_vars(ProcessSelectedTabsCompletes)

\* ----------------------------------------------------- the popup's requests

\* What awaiting fetch(url, {signal}) yields in apiRequest: a response with
\* its status, a rejection for a network error (TypeError), or the
\* AbortError raised when API_TIMEOUT expires.
ApiOutcomes ==
  {[kind |-> "response", status |-> s] : s \in {200, 401, 404, 500}}
  \cup {[kind |-> "network", status |-> 0], [kind |-> "timeout", status |-> 0]}

\* An apiRequest whose catch clause retries after every error.
apiRequestSettledRetryingAll(r, outcome) ==
  LET seen == [r EXCEPT !.status = outcome.status,
                        !.failure = IF outcome.kind # "response" THEN outcome.kind
                                    ELSE IF outcome.status = 401 THEN "session_expired"
                                    ELSE IF outcome.status # 200 THEN "http_error"
                                    ELSE "none"]
  IN  IF seen.failure = "none" THEN [seen EXCEPT !.pc = "returned"]
      ELSE IF r.left > 0 THEN [seen EXCEPT !.pc = "delay"]
      ELSE [seen EXCEPT !.pc = "thrown"]

\* An apiRequest that retries once more than its argument allows.
apiRequestSettledOneMore(r, outcome) ==
  LET seen == [r EXCEPT !.status = outcome.status,
                        !.failure = IF outcome.kind # "response" THEN outcome.kind
                                    ELSE IF outcome.status = 401 THEN "session_expired"
                                    ELSE IF outcome.status # 200 THEN "http_error"
                                    ELSE "none"]
  IN  IF seen.failure = "none" THEN [seen EXCEPT !.pc = "returned"]
      ELSE IF r.left >= 0 /\ seen.failure = "timeout" THEN [seen EXCEPT !.pc = "delay"]
      ELSE [seen EXCEPT !.pc = "thrown"]

\* apiRequest from the settling of its fetch: it returns the data of a 2xx
\* response, throws for a 401 or another error status, and in its catch
\* clause awaits RETRY_DELAY only when retries > 0 and the error is an
\* AbortError; every other error is thrown again.
apiRequestSettled(r, outcome) ==
  LET seen == [r EXCEPT !.status = outcome.status,
                        !.failure = IF outcome.kind # "response" THEN outcome.kind
                                    ELSE IF outcome.status = 401 THEN "session_expired"
                                    ELSE IF outcome.status # 200 THEN "http_error"
                                    ELSE "none"]
  IN  IF seen.failure = "none" THEN [seen EXCEPT !.pc = "returned"]
      ELSE IF r.left > 0 /\ seen.failure = "timeout" THEN [seen EXCEPT !.pc = "delay"]
      ELSE [seen EXCEPT !.pc = "thrown"]

\* apiRequest(url, options, retries) is called and sends its fetch; retries
\* is MAX_RETRIES by default and 0 in batch processing.
ApiRequest ==
  /\ api.pc \in {"idle", "returned", "thrown"}
  /\ \E retries \in 0..MAX_RETRIES :
       api' = [IdleRequest EXCEPT !.pc = "fetch", !.retries = retries,
                                  !.left = retries, !.attempts = 1]
  /\ UNCHANGED <<cvars, pvars, extraction, permits, waiting, tabStage, bvars, evars>>

\* The fetch of apiRequest settles; a 401 response marks the session as
\* logged out.
ApiRequestSettles ==
  /\ api.pc = "fetch"
  /\ \E outcome \in ApiOutcomes :
       /\ api' = apiRequestSettled(api, outcome)
       /\ loginStatus' = IF outcome.kind = "response" /\ outcome.status = 401
                         THEN FALSE ELSE loginStatus
  /\ UNCHANGED <<cvars, extraction, permits, waiting, tabStage, bvars, evars,
                 copyrightChecker, currentPageData, currentCopyrightStatus,
                 isProcessing, added, extracting, nextracts, checkRuns, adding,
                 batch, posts, evaluated>>

\* RETRY_DELAY has passed: apiRequest(url, options, retries - 1) sends the
\* next fetch.
ApiRequestRetries ==
  /\ api.pc = "delay"
  /\ api' = [api EXCEPT !.pc = "fetch", !.left = @ - 1, !.attempts = @ + 1]
  /\ UNCHANGED <<cvars, pvars, extraction, permits, waiting, tabStage, bvars, evars>>

NextApi ==
  \/ LoginStatusChanged
  \/ ApiRequest
  \/ ApiRequestSettles
  \/ ApiRequestRetries

\* The popup's requests to the web application.
SpecApi == Init /\ [][NextApi]_vars

\* --------------------------------------- the content script's extractions

\* CONFIG.EXTRACTION_CACHE_DURATION, in seconds
EXTRACTION_CACHE_DURATION == 30

\* CONFIG.EXTRACTION_TIMEOUT, in seconds
EXTRACTION_TIMEOUT == 15

\* CONFIG.MAX_CONCURRENT_EXTRACTIONS
MAX_CONCURRENT_EXTRACTIONS == 1

\* Number of extractContent messages in one behaviour.
MaxRequests == 3

\* The values of Date.now() in the content script: page load, an age above
\* half the cache duration, the last age below the cache duration, the
\* cache duration itself, and the first age above it.
PageInstants ==
  {0, EXTRACTION_CACHE_DURATION \div 2 + 1, EXTRACTION_CACHE_DURATION - 1,
   EXTRACTION_CACHE_DURATION, EXTRACTION_CACHE_DURATION + 1}

\* What the content script's extractPageContent() settles with: the page
\* data, or an exception raised by one of the extractors.
ExtractionOutcomes ==
  {[ok |-> TRUE, data |-> p] : p \in {PageUnknown, PageDoi}}
  \cup {[ok |-> FALSE, data |-> NoRecord]}

\* sendResponse({success: true, data}) and sendResponse({success: false, error})
SuccessResponse(data) == [success |-> TRUE, data |-> data, error |-> ""]

FailureResponse(error) == [success |-> FALSE, data |-> NoRecord, error |-> error]

\* A handler that answers from the cache whatever its age.
cachedExtractionAnyAge(cache, time) == cache.data # NoRecord

\* extractionCache.data && (now - extractionCache.timestamp) < EXTRACTION_CACHE_DURATION
cachedExtraction(cache, time) ==
  /\ cache.data # NoRecord
  /\ time - cache.timestamp < EXTRACTION_CACHE_DURATION

\* A continuation that leaves extractionInProgress set.
inProgressAfterKept(run) == run.kind = "message"

\* extractionInProgress after the continuation of a run: the then and the
\* catch callbacks of the message handler both reset it, the page-load
\* extraction does not touch it.
inProgressAfter(run) == FALSE

\* A continuation that sends no response when the extraction failed.
settledResponsesSilentFailure(outcome) ==
  IF outcome.ok THEN <<SuccessResponse(outcome.data)>> ELSE <<>>

\* A continuation that answers a failed extraction with the cached data.
settledResponsesCachedOnFailure(outcome) ==
  IF outcome.ok THEN <<SuccessResponse(outcome.data)>>
  ELSE <<SuccessResponse(extractionCache.data)>>

\* A continuation that answers in the then callback and again afterwards.
settledResponsesTwice(outcome) ==
  IF outcome.ok
  THEN <<SuccessResponse(outcome.data), SuccessResponse(outcome.data)>>
  ELSE <<FailureResponse("error")>>

\* The sendResponse calls of the continuation of a message-triggered run:
\* one in the then callback, or one in the catch callback.
settledResponses(outcome) ==
  IF outcome.ok THEN <<SuccessResponse(outcome.data)>>
  ELSE <<FailureResponse("error")>>

\* An extractContent message is handled.  extractPageContent() has no await:
\* its promise is settled when the call returns, and the then or catch
\* callback runs as a microtask, before any other message, timer or event
\* (see ExtractPageContentSettled); so every handler below starts with no
\* run outstanding.  The handler answers from a fresh cache; or, finding
\* extractionInProgress set, starts the 100 ms poll and its 10 s timeout; or
\* sets extractionInProgress, arms the EXTRACTION_TIMEOUT timer and calls
\* extractPageContent().
ExtractContentMessage ==
  /\ outstanding = NoRun
  /\ Len(requests) < MaxRequests
  /\ IF cachedExtraction(extractionCache, pageTime)
     THEN /\ requests' = Append(requests,
                                [path |-> "cache", time |-> pageTime,
                                 responses |-> <<SuccessResponse(extractionCache.data)>>])
          /\ UNCHANGED <<extractionInProgress, outstanding>>
     ELSE IF extractionInProgress
     THEN /\ requests' = Append(requests,
                                [path |-> "waiting", time |-> pageTime,
                                 responses |-> <<>>])
          /\ UNCHANGED <<extractionInProgress, outstanding>>
     ELSE /\ requests' = Append(requests,
                                [path |-> "fresh", time |-> pageTime,
                                 responses |-> <<>>])
          /\ extractionInProgress' = TRUE
          /\ outstanding' = [kind |-> "message", request |-> Len(requests) + 1,
                              now |-> pageTime]
  /\ UNCHANGED <<cvars, pvars, extraction, permits, waiting, tabStage, bvars, api,
                 extractionCache, pageTime, pageLoadExtractionDone>>

\* extractAndCacheContent: the timer set at page load fires; unless an
\* extraction is in progress or the cache is younger than half its
\* duration, extractPageContent() is called.
ExtractAndCacheContent ==
  /\ outstanding = NoRun
  /\ ~pageLoadExtractionDone
  /\ pageLoadExtractionDone' = TRUE
  /\ outstanding' =
       IF /\ ~extractionInProgress
          /\ \/ extractionCache.data = NoRecord
             \/ pageTime - extractionCache.timestamp > EXTRACTION_CACHE_DURATION \div 2
       THEN [kind |-> "auto", request |-> 0, now |-> pageTime]
       ELSE NoRun
  /\ UNCHANGED <<cvars, pvars, extraction, permits, waiting, tabStage, bvars, api,
                 extractionInProgress, extractionCache, pageTime, requests>>

\* The then or catch callback of the outstanding run: it clears the
\* EXTRACTION_TIMEOUT timer, stores a result in the cache with the timestamp
\* the handler read, answers the request and resets extractionInProgress.
ExtractPageContentSettled ==
  /\ outstanding # NoRun
  /\ \E outcome \in ExtractionOutcomes :
       /\ extractionCache' = IF outcome.ok
                             THEN [data |-> outcome.data, timestamp |-> outstanding.now]
                             ELSE extractionCache
       /\ requests' = IF outstanding.kind = "message"
                      THEN [requests EXCEPT ![outstanding.request].responses =
                              @ \o settledResponses(outcome)]
                      ELSE requests
  /\ extractionInProgress' = IF outstanding.kind = "message"
                             THEN inProgressAfter(outstanding)
                             ELSE extractionInProgress
  /\ outstanding' = NoRun
  /\ UNCHANGED <<cvars, pvars, extraction, permits, waiting, tabStage, bvars, api,
                 pageTime, pageLoadExtractionDone>>

\* A clearCache message, or the page becoming visible with an expired cache:
\* extractionCache is reset.
ClearCacheMessage ==
  /\ outstanding = NoRun
  /\ extractionCache # EmptyCache
  /\ \E visibility \in BOOLEAN :
       visibility => pageTime - extractionCache.timestamp > EXTRACTION_CACHE_DURATION
  /\ extractionCache' = EmptyCache
  /\ UNCHANGED <<cvars, pvars, extraction, permits, waiting, tabStage, bvars, api,
                 extractionInProgress, pageTime, pageLoadExtractionDone,
                 outstanding, requests>>

\* Time passes in the page, between two tasks of the content script.
PageTick ==
  /\ outstanding = NoRun
  /\ \E t \in PageInstants : t > pageTime /\ pageTime' = t
  /\ UNCHANGED <<cvars, pvars, extraction, permits, waiting, tabStage, bvars, api,
                 extractionInProgress, extractionCache, pageLoadExtractionDone,
                 outstanding, requests>>

NextContent ==
  \/ ExtractContentMessage
  \/ ExtractAndCacheContent
  \/ ExtractPageContentSettled
  \/ ClearCacheMessage
  \/ PageTick

\* The content script of one page.
SpecContent == Init /\ [][NextContent]_vars

\* The same, every microtask being run.
SpecContentLive == SpecContent /\ WF_vars(ExtractPageContentSettled)

\* ------------------------------------------------- concurrent invocations

\* checkCopyright(pageData) is called by p for the page that q has under
\* check, whether or not q's invocation has returned.
CheckCopyrightAlso(p, q) ==
  /\ inv[p].pc = "idle"
  /\ inv[q].pc # "idle"
  /\ ncalls < MaxCalls
  /\ LET c == [IdleCall EXCEPT !.pageData = inv[q].pageData]
     IN  inv' = [inv EXCEPT ![p] =
                   IF Len(academicDatabases.whitelist) = 0
                   THEN [c EXCEPT !.pc = "load"]
                   ELSE Entered(c, academicDatabases)]
  /\ ncalls' = ncalls + 1
  /\ UNCHANGED <<academicDatabases, storage, now, prev, storageFails, dataset,
                 clearing, pvars, svars>>

NextConcurrent ==
  \/ CheckCopyright("a")
  \/ CheckCopyrightAlso("b", "a")
  \/ \E p \in Callers : CheckCopyrightLoaded(p)
  \/ \E p \in Callers : GetCachedOAStatus(p)
  \/ \E p \in Callers : QueryUnpaywall(p)
  \/ \E p \in Callers : CacheOAStatus(p)

\* Two checkCopyright invocations for the same page, interleaved at their
\* awaits, within the validity of the cache entries.
SpecConcurrent == Init /\ [][NextConcurrent]_vars

\* What chrome.storage.local holds when the registry's answer for Doi1 was
\* cached in an earlier session.
StoredEarlier == cacheWrite(EmptyStorage, Doi1, NotFoundRecord(Doi1), 0)

\* The extension started CACHE_DURATION after that session: the entry has
\* expired.
InitExpired ==
  /\ academicDatabases = EmptyDatabases
  /\ storage = StoredEarlier
  /\ now = CACHE_DURATION
  /\ inv = [p \in Callers |-> IdleCall]
  /\ prev = NoPrev
  /\ ncalls = 0
  /\ storageFails = FALSE
  /\ dataset = GoodDataset
  /\ clearing = IdleClear
  /\ InitPopup
  /\ InitOther

NextExpired ==
  \/ CheckCopyright("a")
  \/ CheckCopyrightAlso("b", "a")
  \/ \E p \in Callers : CheckCopyrightLoaded(p)
  \/ \E p \in Callers : GetCachedOAStatus(p)
  \/ \E p \in Callers : RemoveExpired(p)
  \/ \E p \in Callers : QueryUnpaywall(p)
  \/ \E p \in Callers : CacheOAStatus(p)

\* Two checkCopyright invocations for the same page, interleaved at their
\* awaits, the cache holding an expired entry.
SpecExpired == InitExpired /\ [][NextExpired]_vars

\* ------------------------------------------------ the DOI extractor alone

\* The URLs extractDOIFromPDFUrl is called with, and no URL: a scheme and
\* host (the last has no scheme, so that new URL() rejects the URL), a path
\* and a query string.
ExtractorUrls ==
  LET origins ==
         {<<"h","t","t","p","s",":","/","/","a","r","x","i","v",".","o","r","g">>,
          <<"h","t","t","p","s",":","/","/","A","r","X","i","v",".","o","r","g">>,
          <<"h","t","t","p",":","/","/","x",".","n","e","t">>,
          <<"x",".","n","e","t">>}
      paths ==
         {<<"/","p","d","f","/","2","3","0","1",".","0","0","0","0","1",".","p","d","f">>,
          <<"/","p","d","f","/","2","3","1","0",".","1","2","3","4","5">>,
          <<"/","1","0",".","1","2","3","4","/","a","b",".","p","d","f">>,
          <<"/","1","0",".","1","2","3","4","/","a","b">>,
          <<"/","1",".","1","2","3","4","/","a","b",".","P","D","F">>,
          <<"/","a",".","p","d","f">>,
          <<"/","p","d","f","/","2","3","0","1">>,
          <<>>}
      queries ==
         {<<>>,
          <<"?","d","o","i","=","1","0",".","5","5","5","5","/","q">>,
          <<"?","d","o","i","=","a","b","c">>,
          <<"?","x","=","1","&","d","o","i","=","1","0",".","5","5","5","5","/","q">>}
  IN  {o \o p \o q : o \in origins, p \in paths, q \in queries} \cup {Absent}

\* extractDOIFromPDFUrl(url) is called and returns.
ExtractDOIFromPDFUrl ==
  /\ \E url \in ExtractorUrls :
       extraction' = [pc |-> "returned", url |-> url,
                      doi |-> extractDOIFromPDFUrl(url)]
  /\ UNCHANGED <<cvars, pvars, permits, waiting, tabStage, bvars, api, evars>>

\* Calls of extractDOIFromPDFUrl on its own.
SpecExtract == Init /\ [][ExtractDOIFromPDFUrl]_vars

\* ---------------------------------------------------------------- properties

\* The invocation the sequential specifications follow.
call == inv["a"]

\* The domain checkCopyright classifies, if the page has one.
DomainOf(pageData) ==
  IF pageData = NoRecord THEN Absent
  ELSE IF pageData.domain # Absent THEN pageData.domain
  ELSE IF IsValidURL(pageData.url) THEN hostname(pageData.url)
  ELSE Absent

\* The page is a PDF: isPDF is true or contentType is 'pdf'.
IsPdfPage(pageData) == pageData.isPDF \/ pageData.contentType = "pdf"

\* No DOI is supplied and, for a PDF, none can be extracted from the URL.
HasNoDoi(pageData) ==
  /\ pageData.doi = Absent
  /\ IsPdfPage(pageData) => extractDOIFromPDFUrl(pageData.url) = Absent

\* A step in which checkCopyright runs its tests on the page: the start of
\* an invocation that finds the dataset loaded, or the end of its wait for
\* the dataset.
TestStep ==
  \/ ncalls' # ncalls /\ inv'["a"].pc # "load"
  \/ inv["a"].pc = "load" /\ inv'["a"].pc # "load"

\* The registry answers that are failures of the request.
FailureTags == {"timeout", "network", "http_error"}

\* allowed and confidence of each category.
CategoryTable ==
  {<<"whitelist", TRUE, "high">>, <<"blacklist", FALSE, "high">>,
   <<"unknown_pdf", FALSE, "medium">>, <<"unknown_html", TRUE, "low">>,
   <<"verification_failed", FALSE, "low">>, <<"oa_verified", TRUE, "high">>,
   <<"paywalled", FALSE, "high">>, <<"error", FALSE, "low">>}

\* C1: every add_web_content request, in single-tab and in batch mode, is
\* for a page on which checkCopyright has returned allowed = true.
C1_PostOnlyAfterAllowed == \A r \in posts : r.page \in evaluated

\* C2: when checkCopyright tests a page whose domain matches a whitelist
\* entry, it returns at once with allowed = true, category whitelist,
\* confidence high, whatever the DOI, the PDF flags and the blacklist say.
C2_WhitelistFirst ==
  [][TestStep /\ isWhitelisted(academicDatabases', DomainOf(inv'["a"].pageData))
       => /\ inv'["a"].pc = "done"
          /\ inv'["a"].result.allowed
          /\ inv'["a"].result.category = "whitelist"
          /\ inv'["a"].result.confidence = "high"]_vars

\* A whitelisted domain that also matches the blacklist, on a PDF with a DOI.
C2_Witness ==
  /\ call.pc = "done"
  /\ call.pageData # NoRecord
  /\ call.result.category = "whitelist"
  /\ isBlacklisted(academicDatabases, DomainOf(call.pageData))
  /\ call.pageData.doi # Absent
  /\ call.pageData.isPDF

\* C3: a registry answer with is_oa = true gives allowed = true, category
\* oa_verified; a second call for the same DOI within the cache lifetime
\* returns the cached record without a registry request.
C3_OaVerifiedThenCached ==
  call.pc = "done" =>
    /\ call.answer = "oa" =>
         call.result.allowed /\ call.result.category = "oa_verified"
    /\ (prev.answer = "oa" /\ prev.doi = call.doi /\ now - prev.stamp < CACHE_DURATION)
         => /\ call.reqs = 0
            /\ call.result.category = "oa_verified"

\* The resolver records checkCopyright may be handed.
ResolverRecords ==
  {ErrorRecord("Failed to fetch"),
   [ErrorRecord("Failed to fetch") EXCEPT !.is_oa = TRUE],
   NotFoundRecord(Doi1)}
  \cup {oaDataOf(b) : b \in RegistryBodies(Doi1)}

\* C4: a registry request that times out, fails to connect or returns a
\* non-404 error status gives allowed = false, category verification_failed,
\* confidence low; verification_failed is the decision exactly for records
\* with error set and is_oa false.
C4_VerificationFailed ==
  /\ \A r \in ResolverRecords :
       checkCopyrightVerdict(UrlPage, Doi1, r).category = "verification_failed"
         <=> (r.error # "" /\ ~r.is_oa)
  /\ (call.pc = "done" /\ call.oaStatus # NoRecord) =>
       /\ call.result.category = "verification_failed"
            <=> (call.oaStatus.error # "" /\ ~call.oaStatus.is_oa)
       /\ call.answer \in FailureTags =>
            /\ ~call.result.allowed
            /\ call.result.category = "verification_failed"
            /\ call.result.confidence = "low"

\* A check that ended after the registry request timed out.
C4_Witness ==
  /\ call.pc = "done"
  /\ call.answer = "timeout"
  /\ call.result.category = "verification_failed"

\* C5: no cache entry holds a record with an error; after a call whose
\* registry request failed the lookup key of its DOI has no entry; the next
\* call for the same DOI sends a registry request.
C5_FailuresNotCached ==
  /\ \A k \in DOMAIN storage : storage[k].data.error = ""
  /\ (call.pc = "done" /\ call.answer \in FailureTags) =>
       storageGet(storage, cacheKey(call.doi)) = NoEntry
  /\ (call.pc = "done" /\ call.doi # Absent /\ prev.doi = call.doi
        /\ prev.answer \in FailureTags) => call.reqs = 1

\* A check whose request timed out, followed by a check of the same DOI that
\* reached the registry.
C5_Witness ==
  /\ call.pc = "done"
  /\ call.doi # Absent
  /\ prev.doi = call.doi
  /\ prev.answer = "timeout"
  /\ call.reqs = 1
  /\ call.answer = "oa"
  /\ storage # EmptyStorage

\* C6: a 404 answer is returned and cached as {is_oa: false, oa_status:
\* not_found, doi} and gives a paywalled block; a later call for the same DOI
\* within the cache lifetime returns the same decision without a request.
C6_NotFoundCached ==
  call.pc = "done" =>
    /\ call.answer = "not_found" =>
         /\ call.oaStatus = NotFoundRecord(cleanDOI(call.doi))
         /\ storageGet(storage, cacheKey(cleanDOI(call.doi))) # NoEntry
         /\ ~call.result.allowed
         /\ call.result.category = "paywalled"
    /\ (prev.answer = "not_found" /\ prev.doi = call.doi
          /\ now - prev.stamp < CACHE_DURATION)
         => /\ call.reqs = 0
            /\ call.result = prev.result

\* checkCopyright raises an exception on this input.
Throws(pageData) ==
  \/ pageData = NoRecord
  \/ pageData.domain = Absent /\ ~IsValidURL(pageData.url)

\* C7: no invocation of checkCopyright ends by an exception; a completed one
\* has returned a decision, and on an input that raises an exception it is
\* allowed = false, category error, confidence low.
C7_NeverThrows ==
  /\ call.pc # "thrown"
  /\ call.pc = "done" =>
       /\ call.result # NoRecord
       /\ <<call.result.category, call.result.allowed, call.result.confidence>>
            \in CategoryTable
       /\ Throws(call.pageData) =>
            /\ ~call.result.allowed
            /\ call.result.category = "error"
            /\ call.result.confidence = "low"

\* A page without domain and with an unparsable URL, checked while the
\* storage rejects its operations.
C7_Witness ==
  /\ storageFails
  /\ call.pc = "done"
  /\ call.pageData # NoRecord
  /\ Throws(call.pageData)
  /\ call.result.category = "error"

\* C8: allowed and confidence of every returned decision are those of its
\* category in the table, and the category is one of the table's eight.
C8_CategoryTable ==
  call.pc = "done" =>
    <<call.result.category, call.result.allowed, call.result.confidence>>
      \in CategoryTable

\* A paywalled decision has been returned.
C8_Witness ==
  /\ call.pc = "done"
  /\ call.result.category = "paywalled"
  /\ call.answer = "closed"

\* C9: when checkCopyright tests a page without DOI whose domain is not
\* whitelisted and matches the blacklist, it returns allowed = false,
\* category blacklist, confidence high, PDF or not.
C9_BlacklistWithoutDoi ==
  [][LET pageData == inv'["a"].pageData
         domain   == DomainOf(pageData)
     IN  (/\ TestStep
          /\ pageData # NoRecord
          /\ ~isWhitelisted(academicDatabases', domain)
          /\ isBlacklisted(academicDatabases', domain)
          /\ HasNoDoi(pageData))
           => /\ inv'["a"].pc = "done"
              /\ ~inv'["a"].result.allowed
              /\ inv'["a"].result.category = "blacklist"
              /\ inv'["a"].result.confidence = "high"]_vars

\* A PDF without DOI on a blacklisted domain was blocked as blacklisted.
C9_Witness ==
  /\ call.pc = "done"
  /\ call.pageData # NoRecord
  /\ IsPdfPage(call.pageData)
  /\ HasNoDoi(call.pageData)
  /\ call.result.category = "blacklist"

\* C10: when checkCopyright tests a PDF page without DOI whose domain is
\* neither whitelisted nor blacklisted, it returns allowed = false, category
\* unknown_pdf, confidence medium.
C10_UnknownPdf ==
  [][LET pageData == inv'["a"].pageData
         domain   == DomainOf(pageData)
     IN  (/\ TestStep
          /\ pageData # NoRecord
          /\ domain # Absent
          /\ IsPdfPage(pageData)
          /\ ~isWhitelisted(academicDatabases', domain)
          /\ ~isBlacklisted(academicDatabases', domain)
          /\ HasNoDoi(pageData))
           => /\ inv'["a"].pc = "done"
              /\ ~inv'["a"].result.allowed
              /\ inv'["a"].result.category = "unknown_pdf"
              /\ inv'["a"].result.confidence = "medium"]_vars

\* A page marked as PDF by its contentType only was blocked as unknown PDF
\* while the dataset was loaded.
C10_Witness ==
  /\ call.pc = "done"
  /\ call.pageData # NoRecord
  /\ ~call.pageData.isPDF
  /\ call.pageData.contentType = "pdf"
  /\ Len(academicDatabases.whitelist) > 0
  /\ call.result.category = "unknown_pdf"

\* C11: when checkCopyright tests a page that is not a PDF, has no DOI and
\* whose domain is neither whitelisted nor blacklisted, it returns allowed =
\* true, category unknown_html, confidence low and a warning; and a returned
\* decision that is allowed with a confidence other than high is that
\* decision, for a page that is not a PDF and has no DOI.
C11_UnknownHtml ==
  [][LET pageData == inv'["a"].pageData
         domain   == DomainOf(pageData)
         result   == inv'["a"].result
     IN  /\ (/\ TestStep
              /\ pageData # NoRecord
              /\ domain # Absent
              /\ ~IsPdfPage(pageData)
              /\ ~isWhitelisted(academicDatabases', domain)
              /\ ~isBlacklisted(academicDatabases', domain)
              /\ HasNoDoi(pageData))
               => /\ inv'["a"].pc = "done"
                  /\ result.allowed
                  /\ result.category = "unknown_html"
                  /\ result.confidence = "low"
                  /\ result.warning # ""
         /\ (inv'["a"].pc = "done" /\ result.allowed /\ result.confidence # "high")
               => /\ result.category = "unknown_html"
                  /\ result.warning # ""
                  /\ ~IsPdfPage(pageData)
                  /\ HasNoDoi(pageData)]_vars

\* A web page of an unlisted host, without DOI, was admitted with a warning
\* while the dataset was loaded.
C11_Witness ==
  /\ call.pc = "done"
  /\ call.pageData # NoRecord
  /\ ~IsPdfPage(call.pageData)
  /\ HasNoDoi(call.pageData)
  /\ Len(academicDatabases.whitelist) > 0
  /\ ~isWhitelisted(academicDatabases, DomainOf(call.pageData))
  /\ ~isBlacklisted(academicDatabases, DomainOf(call.pageData))
  /\ call.result.allowed
  /\ call.result.category = "unknown_html"
  /\ call.result.confidence = "low"
  /\ call.result.warning # ""

\* C12: no decision with category error is allowed: the status the popup
\* holds in currentCopyrightStatus for a page whose check could not be
\* completed has allowed = false.
C12_ErrorNeverAllowed ==
  (currentCopyrightStatus # NoRecord /\ currentCopyrightStatus.category = "error")
    => ~currentCopyrightStatus.allowed

\* C13: every decision checkCopyright returns has a non-empty reason, and
\* every returned decision with allowed = false has a suggestion.
C13_ReasonAndSuggestion ==
  call.pc = "done"
    => /\ call.result.reason # ""
       /\ ~call.result.allowed => call.result.suggestion # ""

\* The url property of the page checkCopyright was given.
InputUrl == IF call.pageData = NoRecord THEN Absent ELSE call.pageData.url

\* C14: a decision returned by checkCopyright has an oa_url only if the
\* resolver record has that oa_url and it differs from the input url; when
\* the resolver's oa_url is absent or equals the input url (or no record was
\* obtained) the decision has neither oa_url nor oa_host.
C14_OaUrlIsAlternative ==
  call.pc = "done"
    => /\ call.result.oa_url # Absent
            => /\ call.oaStatus # NoRecord
               /\ call.oaStatus.oa_url = call.result.oa_url
               /\ call.result.oa_url # InputUrl
       /\ (\/ call.oaStatus = NoRecord
           \/ call.oaStatus.oa_url = Absent
           \/ call.oaStatus.oa_url = InputUrl)
            => /\ call.result.oa_url = Absent
               /\ call.result.oa_host = ""

\* An open-access article whose best location is the page itself was
\* admitted without oa_url.
C14_Witness ==
  /\ call.pc = "done"
  /\ call.result.category = "oa_verified"
  /\ call.oaStatus # NoRecord
  /\ call.oaStatus.oa_url # Absent
  /\ call.oaStatus.oa_url = InputUrl
  /\ call.result.oa_url = Absent
  /\ call.result.oa_host = ""

\* C15: whenever queryUnpaywall has a record r to cache, for every DOI
\* string: right after cacheOAStatus(doi, r) on the current storage the read
\* getCachedOAStatus(doi) returns r; and a read made once more than
\* CACHE_DURATION has passed since the write, with no write in between,
\* returns null.
C15_CacheRoundTrip ==
  call.pc = "storage_set"
    => \A doi \in Dois \ {Absent} :
         LET r       == call.oaStatus
             written == cacheWrite(storage, doi, r, call.stamp)
         IN  /\ getCachedOAStatus(written, doi, call.stamp) =
                   [kind |-> "hit", data |-> r]
             /\ \A later \in {call.stamp + CACHE_DURATION + 1,
                               call.stamp + 2 * CACHE_DURATION} :
                   getCachedOAStatus(written, doi, later) =
                     [kind |-> "expired", data |-> NoRecord]

\* A record the previous invocation cached was read again more than
\* CACHE_DURATION later and found expired.
C15_Witness ==
  /\ call.pc = "storage_remove"
  /\ prev.doi = call.doi
  /\ prev.answer \in {"oa", "closed", "not_found"}
  /\ storageGet(storage, cacheKey(call.doi)) # NoEntry
  /\ storageGet(storage, cacheKey(call.doi)).timestamp = prev.stamp
  /\ now - prev.stamp > CACHE_DURATION

\* C16: a read that finds an entry of age at most CACHE_DURATION returns its
\* record and keeps the entry; a read that finds an older entry goes on to
\* delete it; and an entry leaves the storage only through the removal that
\* follows a read which found its age above CACHE_DURATION.
C16_InvalidatedPastDuration ==
  [][LET c     == inv["a"]
         entry == storageGet(storage, cacheKey(c.doi))
     IN  /\ (c.pc = "storage_get" /\ entry # NoEntry /\ inv'["a"] # c)
               => IF now - entry.timestamp <= CACHE_DURATION
                  THEN /\ inv'["a"].pc = "done"
                       /\ inv'["a"].answer = "cached"
                       /\ inv'["a"].oaStatus = entry.data
                       /\ storage' = storage
                  ELSE inv'["a"].pc = "storage_remove"
         /\ (c.pc = "storage_remove" /\ inv'["a"] # c)
               => cacheKey(c.doi) \notin DOMAIN storage'
         /\ (DOMAIN storage \ DOMAIN storage' # {})
               => /\ c.pc = "storage_remove"
                  /\ DOMAIN storage \ DOMAIN storage' = {cacheKey(c.doi)}
                  /\ now - entry.timestamp > CACHE_DURATION]_vars

\* C17: once queryUnpaywall has stored a record for the DOI string it was
\* given, the cache lookup queryUnpaywall makes for that same DOI string
\* finds that record.
C17_SameCacheKey ==
  (call.pc = "done" /\ call.answer \in {"oa", "closed", "not_found"})
    => getCachedOAStatus(storage, call.doi, call.stamp) =
         [kind |-> "hit", data |-> call.oaStatus]

\* The keys of the stored OA cache entries.
CacheKeysIn(st) == {k \in DOMAIN st : startsWith(k, CACHE_PREFIX)}

\* C18: clearOACache removes every entry stored under a key starting with
\* "oa_cache_" when it read the storage, returns the number of entries it
\* removed and leaves every other key with its value; when one of its
\* storage operations is rejected it returns 0 and removes nothing.
C18_ClearOACache ==
  [][/\ (clearing.pc \in {"idle", "done"} /\ clearing' # clearing)
          => /\ storage' = storage
             /\ clearing'.pc = "remove"
                  => /\ ~clearing'.failed
                     /\ clearing'.cacheKeys = CacheKeysIn(storage)
             /\ clearing'.pc = "done"
                  => /\ clearing'.count = 0
                     /\ clearing'.failed \/ CacheKeysIn(storage) = {}
     /\ (clearing.pc = "remove" /\ clearing' # clearing)
          => IF clearing'.failed
             THEN storage' = storage /\ clearing'.count = 0
             ELSE /\ \A k \in clearing.cacheKeys : k \notin DOMAIN storage'
                  /\ CacheKeysIn(storage) \subseteq clearing.cacheKeys
                       => CacheKeysIn(storage') = {}
                  /\ clearing'.count = Cardinality(DOMAIN storage \ DOMAIN storage')
                  /\ clearing'.count = Cardinality(clearing.cacheKeys)
                  /\ \A k \in DOMAIN storage \ clearing.cacheKeys :
                       k \in DOMAIN storage' /\ storage'[k] = storage[k]
                  /\ DOMAIN storage' \subseteq DOMAIN storage]_vars

\* clearOACache removed two cache entries and returned 2 while the pending
\* selection stayed in the storage.
C18_Witness ==
  /\ clearing.pc = "done"
  /\ ~clearing.failed
  /\ clearing.count = 2
  /\ CacheKeysIn(storage) = {}
  /\ PendingSelectionKey \in DOMAIN storage
  /\ storage[PendingSelectionKey] = PageUnknown

\* C19: a loadAcademicDatabases that fails, in whatever state the lists
\* are, returns false and leaves the whitelist, the blacklist and the
\* conditional list empty, so that no domain matches any of them.
C19_FailedLoadLeavesEmpty ==
  \A fetched \in DatasetFetches(dataset) :
    LET r == loadAcademicDatabases(academicDatabases, fetched)
    IN  ~r.ok => /\ r.db = EmptyDatabases
                 /\ \A domain \in Domains :
                      /\ ~isWhitelisted(r.db, domain)
                      /\ ~isBlacklisted(r.db, domain)
                      /\ ~isConditional(r.db, domain)

\* C20: in whatever state the lists are, loading the dataset twice leaves
\* the whitelist, the blacklist and the conditional list as loading it once
\* does, and a load that reads the document leaves them as a load into empty
\* lists does.
C20_LoadIdempotent ==
  \A fetched \in DatasetFetches(dataset) :
    LET once  == loadAcademicDatabases(academicDatabases, fetched).db
        twice == loadAcademicDatabases(once, fetched).db
    IN  /\ twice = once
        /\ fetched.kind = "ok"
             => once = loadAcademicDatabases(EmptyDatabases, fetched).db

\* The complete dataset has been loaded: the blacklist holds each of its
\* two entries once.
C20_Witness ==
  /\ dataset = GoodDataset
  /\ academicDatabases = LoadedDatabases
  /\ academicDatabases.blacklist = <<PayEntry, ClosedEntry>>
  /\ call.pc = "done"
  /\ ncalls = MaxCalls

\* C21: once a checkCopyright invocation has completed (so that a load of
\* the dataset has been attempted), a later invocation neither waits for a
\* load nor changes the whitelist, the blacklist or the conditional list;
\* the lists change only in the load of the first invocation or in a call
\* of loadAcademicDatabases on its own.
C21_LoadedOnce ==
  [][/\ (ncalls >= 1 /\ ncalls' = ncalls + 1) => inv'["a"].pc # "load"
     /\ academicDatabases' # academicDatabases
          => \/ inv' = inv
             \/ ncalls = 1 /\ inv["a"].pc = "load"]_vars

\* s matches /^10\.\d{4,}\//.
MatchesDoiPattern(s) ==
  /\ Len(s) >= 8
  /\ SubSeq(s, 1, 3) = <<"1", "0", ".">>
  /\ \E k \in 4..(Len(s) - 4) :
       /\ \A j \in 4..(3 + k) : s[j] \in Digits
       /\ s[4 + k] = "/"

\* C22: every DOI extractDOIFromPDFUrl returns matches ^10\.\d{4,}/.
C22_ExtractedDoiIsValid ==
  (extraction.pc = "returned" /\ extraction.doi # Absent)
    => MatchesDoiPattern(extraction.doi)

\* The identifier <digits>.<digits> of a URL that is
\* https://arxiv.org/pdf/<digits>.<digits> or that followed by .pdf; Absent
\* for any other URL.
ArxivIdOfPdfUrl(url) ==
  LET prefix == <<"h","t","t","p","s",":","/","/","a","r","x","i","v",".","o","r","g","/","p","d","f","/">>
      b      == Len(prefix) + 1
      k1     == RunLen(url, b, Digits)
      k2     == RunLen(url, b + k1 + 1, Digits)
      rest   == SubSeq(url, b + k1 + 1 + k2, Len(url))
  IN  IF /\ startsWith(url, prefix)
         /\ k1 >= 1
         /\ b + k1 <= Len(url)
         /\ url[b + k1] = "."
         /\ k2 >= 1
         /\ rest \in {<<>>, <<".", "p", "d", "f">>}
      THEN SubSeq(url, b, b + k1 + k2)
      ELSE Absent

\* C23: for a URL https://arxiv.org/pdf/<digits>.<digits>, with or without
\* .pdf, extractDOIFromPDFUrl returns 10.48550/arXiv.<digits>.<digits>.
C23_ArxivPdfUrl ==
  (extraction.pc = "returned" /\ ArxivIdOfPdfUrl(extraction.url) # Absent)
    => extraction.doi =
         <<"1","0",".","4","8","5","5","0","/","a","r","X","i","v",".">> \o ArxivIdOfPdfUrl(extraction.url)

\* extractDOIFromPDFUrl('https://arxiv.org/pdf/2301.00001.pdf') returned
\* '10.48550/arXiv.2301.00001'.
C23_Witness ==
  /\ extraction.pc = "returned"
  /\ extraction.url =
       <<"h","t","t","p","s",":","/","/","a","r","x","i","v",".","o","r","g","/","p","d","f","/","2","3","0","1",".","0","0","0","0","1",".","p","d","f">>
  /\ extraction.doi =
       <<"1","0",".","4","8","5","5","0","/","a","r","X","i","v",".","2","3","0","1",".","0","0","0","0","1">>

\* The candidates of the four patterns for a URL, in the order of the
\* claim: DOI in the path before .pdf, publisher-style path DOI, arXiv PDF
\* path, doi query parameter.
Candidates(url) ==
  <<DoiInPath(url),
    SpringerMatch(url),
    IF ArxivMatch(url) = Absent THEN Absent ELSE ArxivDoiPrefix \o ArxivMatch(url),
    IF IsValidURL(url) THEN searchParamsGet(url, <<"d","o","i">>) ELSE Absent>>

\* The result is the candidate of the first pattern that has one, and
\* Absent when no pattern has one.
FirstCandidateReturned ==
  LET c == Candidates(extraction.url)
      S == {k \in 1..4 : c[k] # Absent}
  IN  extraction.doi = IF S = {} THEN Absent ELSE c[Min(S)]

\* C28 as stated: extractDOIFromPDFUrl returns the candidate of the first
\* pattern that has one, and null for an empty URL and for a URL that cannot
\* be parsed.
C28_FirstPatternOrNull ==
  extraction.pc = "returned"
    => /\ extraction.url # Absent => FirstCandidateReturned
       /\ (extraction.url = Absent \/ ~IsValidURL(extraction.url))
            => extraction.doi = Absent

\* C28 amended: extractDOIFromPDFUrl returns the candidate of the first
\* pattern that has one; it returns null for an empty URL, and for a URL
\* that cannot be parsed when none of the three path patterns matches it.
C28_FirstPatternDecides ==
  extraction.pc = "returned"
    => /\ extraction.url # Absent => FirstCandidateReturned
       /\ extraction.url = Absent => extraction.doi = Absent
       /\ (/\ extraction.url # Absent
           /\ ~IsValidURL(extraction.url)
           /\ DoiInPath(extraction.url) = Absent
           /\ SpringerMatch(extraction.url) = Absent
           /\ ArxivMatch(extraction.url) = Absent)
            => extraction.doi = Absent

\* A URL with a doi query parameter that also matches the first pattern gave
\* the candidate of the first pattern.
C28_Witness ==
  /\ extraction.pc = "returned"
  /\ IsValidURL(extraction.url)
  /\ DoiInPath(extraction.url) # Absent
  /\ searchParamsGet(extraction.url, <<"d","o","i">>) # Absent
  /\ extraction.doi = DoiInPath(extraction.url)
  /\ extraction.doi # searchParamsGet(extraction.url, <<"d","o","i">>)

\* The two invocations have returned after checking the same page, and the
\* registry gave both the same answer: the same kind of answer and, for a
\* document, the same document.
SameRegistryAnswer ==
  /\ inv["a"].pc = "done"
  /\ inv["b"].pc = "done"
  /\ inv["a"].pageData = inv["b"].pageData
  /\ inv["a"].answer \notin {"none", "cached"}
  /\ inv["a"].answer = inv["b"].answer
  /\ inv["a"].answer \in {"oa", "closed"}
       => /\ inv["a"].oaStatus.is_oa = inv["b"].oaStatus.is_oa
          /\ inv["a"].oaStatus.oa_status = inv["b"].oaStatus.oa_status
          /\ inv["a"].oaStatus.oa_url = inv["b"].oaStatus.oa_url

\* C24 as stated: two invocations for the same DOI that received the same
\* registry answer, however they interleaved, returned equal records and
\* equal decisions, and the cache holds exactly that record.
C24_SameAnswerCached ==
  SameRegistryAnswer
    => /\ inv["a"].oaStatus = inv["b"].oaStatus
       /\ inv["a"].result = inv["b"].result
       /\ DOMAIN storage = {cacheKey(cleanDOI(inv["a"].doi))}
       /\ storage[cacheKey(cleanDOI(inv["a"].doi))].data = inv["a"].oaStatus

\* C24 amended: two invocations for the same DOI that received the same
\* registry answer, however they interleaved, returned equal records and
\* equal decisions; when the answer is a document or a 404, which are the
\* answers queryUnpaywall caches, the cache holds one entry, with that record.
C24_SameAnswerSameResult ==
  SameRegistryAnswer
    => /\ inv["a"].doi = inv["b"].doi
       /\ inv["a"].oaStatus = inv["b"].oaStatus
       /\ inv["a"].result = inv["b"].result
       /\ inv["a"].answer \in {"oa", "closed", "not_found"}
            => /\ DOMAIN storage = {cacheKey(cleanDOI(inv["a"].doi))}
               /\ storage[cacheKey(cleanDOI(inv["a"].doi))].data = inv["a"].oaStatus

\* Both invocations queried the registry, were told that the article is
\* open access, and both wrote the cache: the second write found the entry
\* of the first.
C24_Witness ==
  /\ SameRegistryAnswer
  /\ inv["a"].answer = "oa"
  /\ inv["a"].reqs = 1
  /\ inv["b"].reqs = 1
  /\ inv["a"].result.category = "oa_verified"
  /\ inv["b"].result.category = "oa_verified"
  /\ storage[cacheKey(cleanDOI(inv["a"].doi))].data = inv["b"].oaStatus

\* C25: a checkCopyright invocation sends at most one registry request; it
\* sends none when the domain is whitelisted or no DOI is available (the
\* invocation returns without an answer), and at its cache lookup it returns
\* the cached record without a request when the storage holds an entry for
\* its DOI of age at most CACHE_DURATION, and sends exactly one request
\* otherwise, whose timeout or failure ends the invocation.
C25_AtMostOneRequest ==
  [][LET c     == inv["a"]
         d     == inv'["a"]
         entry == storageGet(storage, cacheKey(cleanDOI(c.doi)))
     IN  /\ d.reqs \in {0, 1}
         /\ d.reqs >= c.reqs \/ d.pc \in {"idle", "load", "storage_get", "done"}
         /\ (d.pc = "done" /\ d.answer = "none") => d.reqs = 0
         /\ (d.pc = "done" /\ d.answer \notin {"none", "cached"}) => d.reqs = 1
         /\ (c.pc = "storage_get" /\ d # c)
               => IF entry # NoEntry /\ now - entry.timestamp <= CACHE_DURATION
                  THEN d.pc = "done" /\ d.reqs = 0 /\ d.answer = "cached"
                  ELSE d.pc \in {"fetch", "storage_remove"}
         /\ (c.pc = "storage_remove" /\ d # c) => d.pc = "fetch"
         /\ (c.pc = "fetch" /\ d # c)
               => d.reqs = 1 /\ d.pc \in {"storage_set", "done"}
         /\ (c.pc = "storage_set" /\ d # c) => d.reqs = 1 /\ d.pc = "done"]_vars

\* A DOI is available for the page: supplied in pageData, or extracted from
\* the URL of a PDF.
DoiAvailable(pageData) ==
  \/ pageData.doi # Absent
  \/ pageIsPDF(pageData) /\ extractDOIFromPDFUrl(pageData.url) # Absent

\* C26: an invocation for a page with a DOI available whose domain is not
\* whitelisted goes to the resolver whether or not the domain is blacklisted;
\* an invocation that consulted the resolver allows the page exactly when the
\* record has is_oa true, with category oa_verified; and category blacklist
\* is returned only when no DOI is available.
C26_DoiDecidesNotBlacklist ==
  [][LET c  == inv["a"]
         d  == inv'["a"]
         pd == d.pageData
     IN  /\ ( /\ c.pc \in {"idle", "done", "load"}
              /\ d.pc \notin {"idle", "load"}
              /\ d # c
              /\ pd # NoRecord
              /\ (pd.domain # Absent \/ IsValidURL(pd.url))
              /\ DoiAvailable(pd)
              /\ ~isWhitelisted(academicDatabases', pageDomain(pd)) )
               => d.pc = "storage_get"
         /\ (d.pc = "done" /\ d.answer # "none")
               => /\ d.result.allowed <=> d.oaStatus.is_oa
                  /\ d.oaStatus.is_oa => d.result.category = "oa_verified"
                  /\ ~d.oaStatus.is_oa
                       => d.result.category \in {"paywalled", "verification_failed"}
         /\ (d.pc = "done" /\ d.result.category = "blacklist")
               => ~DoiAvailable(pd)]_vars

\* An invocation for a page of a blacklisted domain has returned allowed,
\* with category oa_verified, on the registry's word that the article is
\* open access.
C26_Witness ==
  /\ inv["a"].pc = "done"
  /\ inv["a"].answer = "oa"
  /\ isBlacklisted(academicDatabases, pageDomain(inv["a"].pageData))
  /\ ~isWhitelisted(academicDatabases, pageDomain(inv["a"].pageData))
  /\ inv["a"].result.allowed
  /\ inv["a"].result.category = "oa_verified"

\* C27: checkCopyright looks for a DOI in the URL only when pageData carries
\* none and the page is a PDF (isPDF, or contentType "pdf"): a supplied DOI
\* is the one handed to the resolver; a page that is not a PDF and carries
\* no DOI returns without consulting the resolver; a whitelisted page
\* returns the whitelist decision whatever its URL holds; and a PDF without
\* a supplied DOI whose URL holds one goes to the resolver with it, not to
\* the decisions for pages without DOI.
C27_EnrichmentOnlyForPdfWithoutDoi ==
  [][LET c  == inv["a"]
         d  == inv'["a"]
         pd == d.pageData
         db == academicDatabases'
     IN  ( /\ c.pc \in {"idle", "done", "load"}
           /\ d.pc \notin {"idle", "load"}
           /\ d # c
           /\ pd # NoRecord
           /\ (pd.domain # Absent \/ IsValidURL(pd.url)) )
           => /\ isWhitelisted(db, pageDomain(pd))
                   => d.pc = "done" /\ d.result.category = "whitelist"
              /\ (pd.doi # Absent /\ ~isWhitelisted(db, pageDomain(pd)))
                   => d.pc = "storage_get" /\ d.doi = pd.doi
              /\ (pd.doi = Absent /\ ~pd.isPDF /\ pd.contentType # "pdf")
                   => /\ d.pc = "done"
                      /\ d.doi = Absent
                      /\ d.result.category \in {"whitelist", "blacklist", "unknown_html"}
              /\ ( /\ pd.doi = Absent
                   /\ pd.isPDF \/ pd.contentType = "pdf"
                   /\ ~isWhitelisted(db, pageDomain(pd)) )
                   => IF extractDOIFromPDFUrl(pd.url) # Absent
                      THEN /\ d.pc = "storage_get"
                           /\ d.doi = extractDOIFromPDFUrl(pd.url)
                      ELSE /\ d.pc = "done"
                           /\ d.result.category \in {"blacklist", "unknown_pdf"}]_vars

\* An invocation for a PDF known by its contentType, of a blacklisted domain
\* and without a supplied DOI, has consulted the resolver for the DOI found
\* in its URL.
C27_Witness ==
  /\ inv["a"].pc = "done"
  /\ inv["a"].answer # "none"
  /\ inv["a"].pageData.doi = Absent
  /\ ~inv["a"].pageData.isPDF
  /\ inv["a"].pageData.contentType = "pdf"
  /\ isBlacklisted(academicDatabases, pageDomain(inv["a"].pageData))
  /\ inv["a"].doi # Absent
  /\ inv["a"].doi = extractDOIFromPDFUrl(inv["a"].pageData.url)

RECURSIVE DomainsUnder(_)
\* The strings of every array found at any depth under a sequence of JSON
\* values.
DomainsUnder(values) ==
  UNION {IF values[k].type = "array"
         THEN {values[k].items[i] : i \in 1..Len(values[k].items)}
         ELSE DomainsUnder(values[k].values) : k \in 1..Len(values)}

\* C29: a successful load of the dataset leaves in the blacklist exactly the
\* domain strings of the arrays found at any depth under the document's
\* blacklist section.
C29_FlattensAnyDepth ==
  [][LET loaded == academicDatabases'.blacklist
     IN  (academicDatabases' # academicDatabases /\ dataset.has_blacklist)
           => {loaded[i] : i \in 1..Len(loaded)} = DomainsUnder(dataset.blacklist)]_vars

\* The tabs that were granted a permit and have not called release().
PermitHolders ==
  {i \in DOMAIN tabStage : tabStage[i] \in {"granted", "delay", "processing"}}

\* The tabs whose processTabContent has started and whose release() has not
\* been called.
Processing == {i \in DOMAIN tabStage : tabStage[i] = "processing"}

\* C30 as stated: in a batch at most MAX_CONCURRENT_TABS tabs are between the
\* start of processTabContent and their release(), permits is never
\* negative, and permits plus the number of those tabs is the capacity.
C30_PermitsPlusProcessing ==
  tabStage # <<>>
    => /\ Cardinality(Processing) <= MAX_CONCURRENT_TABS
       /\ permits >= 0
       /\ permits + Cardinality(Processing) = MAX_CONCURRENT_TABS

\* C30 amended: in a batch at most MAX_CONCURRENT_TABS tabs are between the
\* start of processTabContent and their release(); permits is never negative;
\* permits plus the number of tabs that were granted a permit and have not
\* called release(), whether or not their processTabContent has started, is
\* the capacity; and a release grants the permit to the tab that has waited
\* longest, the waiting tabs being queued in the order of their acquire().
C30_SemaphoreBound ==
  [][/\ tabStage' # <<>>
          => /\ Cardinality(Processing') <= MAX_CONCURRENT_TABS
             /\ permits' >= 0
             /\ permits' + Cardinality(PermitHolders') = MAX_CONCURRENT_TABS
             /\ Queued(waiting') = {i \in DOMAIN tabStage' : tabStage'[i] = "waiting"}
             /\ \A j, k \in 1..Len(waiting') : j < k => waiting'[j] < waiting'[k]
      /\ \A i \in DOMAIN tabStage :
           (tabStage[i] = "waiting" /\ tabStage'[i] # "waiting")
             => /\ i = Head(waiting)
                /\ waiting' = Tail(waiting)
                /\ tabStage'[i] = "granted"]_vars

\* Five tabs were selected: the fourth has been granted the permit that the
\* first released and is in its delay, the fifth is still waiting, and the
\* second and third are in processTabContent.
C30_Witness ==
  /\ Len(tabStage) = 5
  /\ tabStage[1] = "released"
  /\ tabStage[2] = "processing"
  /\ tabStage[3] = "processing"
  /\ tabStage[4] = "delay"
  /\ waiting = <<5>>
  /\ permits = 0

C32_OneAddInFlight ==
  [][/\ adding'.stage # "idle" => isProcessing'
     /\ (adding.stage # "idle" /\ isProcessing /\ ~isProcessing')
          => adding'.stage = "idle"
     /\ (adding'.stage = "tab" /\ adding' # adding) => adding.stage = "idle"]_vars

\* C33: an extractPageContent run of the content script, started by an
\* extractContent message or by the page-load extraction, starts only when
\* no earlier run has yet to be continued, so that at most
\* MAX_CONCURRENT_EXTRACTIONS = 1 run is outstanding; extractionInProgress
\* is true exactly while a message-triggered run is outstanding; and no
\* request finds an extraction in progress.
C33_OneExtractionOutstanding ==
  [][/\ (outstanding' # NoRun /\ outstanding' # outstanding)
          => /\ outstanding = NoRun
             /\ outstanding'.kind \in {"message", "auto"}
             /\ ~extractionInProgress
     /\ Cardinality({outstanding'} \ {NoRun}) <= MAX_CONCURRENT_EXTRACTIONS
     /\ extractionInProgress' <=> outstanding'.kind = "message"
     /\ \A r \in 1..Len(requests') : requests'[r].path # "waiting"]_vars

\* A message-triggered run is outstanding, after the page-load extraction
\* has run and its result has expired in the cache.
C33_Witness ==
  /\ outstanding.kind = "message"
  /\ extractionInProgress
  /\ pageLoadExtractionDone
  /\ extractionCache.data # NoRecord
  /\ pageTime - extractionCache.timestamp >= EXTRACTION_CACHE_DURATION

\* C34: sendResponse is called at most once for every extractContent
\* request: once by the handler itself on a cache hit, and once by the
\* continuation of the extraction the handler started, which has cleared
\* the timer of EXTRACTION_TIMEOUT before that timer can fire; no request
\* takes the path that polls an extraction in progress.
C34_RespondsAtMostOnce ==
  \A r \in 1..Len(requests) :
    /\ Len(requests[r].responses) <= 1
    /\ requests[r].path \in {"cache", "fresh"}
    /\ requests[r].path = "cache" => Len(requests[r].responses) = 1
    /\ (requests[r].path = "fresh" /\ outstanding.request # r)
         => Len(requests[r].responses) = 1

\* A request answered by the continuation of its extraction was followed by
\* a request answered from the cache.
C34_Witness ==
  /\ Len(requests) >= 2
  /\ requests[1].path = "fresh"
  /\ Len(requests[1].responses) = 1
  /\ requests[2].path = "cache"
  /\ Len(requests[2].responses) = 1
  /\ outstanding = NoRun

C36_SuccessCarriesFreshData ==
  [][\A r \in 1..Len(requests') :
       LET answered == IF r <= Len(requests) THEN Len(requests[r].responses) ELSE 0
           after == requests'[r].responses
       IN \A k \in (answered + 1)..Len(after) :
            after[k].success =>
              \/ /\ requests'[r].path = "cache"
                 /\ extractionCache.data # NoRecord
                 /\ after[k].data = extractionCache.data
                 /\ requests'[r].time - extractionCache.timestamp
                      < EXTRACTION_CACHE_DURATION
              \/ /\ requests'[r].path = "fresh"
                 /\ outstanding.kind = "message"
                 /\ outstanding.request = r
                 /\ after[k].data # NoRecord
                 /\ extractionCache' = [data |-> after[k].data,
                                        timestamp |-> requests'[r].time]]_vars

\* A first request extracted the page, a second one was served from the
\* cache at the last age below the cache duration, and a third one, at the
\* cache duration, was answered by a new extraction.
C36_Witness ==
  /\ Len(requests) = 3
  /\ requests[1].path = "fresh" /\ requests[1].time = 0
  /\ requests[1].responses = <<SuccessResponse(PageDoi)>>
  /\ requests[2].path = "cache" /\ requests[2].time = EXTRACTION_CACHE_DURATION - 1
  /\ requests[2].responses = <<SuccessResponse(PageDoi)>>
  /\ requests[3].path = "fresh" /\ requests[3].time = EXTRACTION_CACHE_DURATION
  /\ requests[3].responses = <<SuccessResponse(PageUnknown)>>

\* C37: whenever addToProject sends currentPageData, currentCopyrightStatus
\* is a decision of checkCopyright on that same page data.  (The statuses
\* the popup stores when no check could be made are the subject of C1 and
\* are left aside here.)
C37_StatusIsForSubmittedData ==
  [][\A r \in posts' \ posts :
       r.mode = "single"
         => currentCopyrightStatus \in
              PageOutcomes[r.page] \cup {CheckerUnavailableStatus, CheckFailedStatus}]_vars

\* C38: processSelectedTabs terminates: a batch that has started ends with
\* every selected tab processed, completed equal to the number of selected
\* tabs, every permit back in the semaphore and batchProcessingActive reset
\* to false; each tab is counted once, and completed = successful + failed
\* after every callback.
C38_BatchTerminates ==
  /\ batchProcessingActive
       ~> /\ ~batchProcessingActive
          /\ completed = Len(tabStage)
          /\ permits = MAX_CONCURRENT_TABS
          /\ waiting = <<>>
  /\ [](/\ completed = successful + failed
        /\ completed = Cardinality({i \in DOMAIN tabStage : tabStage[i] = "released"})
        /\ completed < Len(tabStage) => batchProcessingActive
        /\ batchProcessingActive => Len(tabStage) > 0)
  /\ [][\A i \in DOMAIN tabStage :
          /\ tabStage[i] = "released" => tabStage'[i] = "released"
          /\ tabStage'[i] = "processing" => tabStage[i] \in {"granted", "delay", "processing"}]_vars

\* A batch of the largest size has ended, some tabs having had to wait for
\* a permit: two tabs were added, the others failed or threw.
C38_Witness ==
  /\ ~batchProcessingActive
  /\ Len(tabStage) = MaxSelectedTabs
  /\ completed = MaxSelectedTabs
  /\ successful = 2
  /\ failed = completed - 2
  /\ permits = MAX_CONCURRENT_TABS

\* C39: getCachedOAStatus never deletes an unexpired cache entry: no step
\* removes from chrome.storage.local a cache entry that is younger than
\* CACHE_DURATION, whichever way concurrent queryUnpaywall calls for the
\* same DOI interleave.
C39_UnexpiredEntryKept ==
  [][\A k \in cacheKeysOf(storage) :
       IsFresh(storage[k], now) => k \in DOMAIN storage']_vars

=============================================================================
